---- MODULE Spec2Model ----
(***************************************************************************)
(* The host/guest call bridge of kannader-config-macros: the generated     *)
(* host client (make_host_client), the host setup (implement_host), the    *)
(* generated guest entry points (make_guest_server) and the guest          *)
(* allocator, setup entry point and configuration cell (implement_guest).  *)
(*                                                                         *)
(* Scaling: a u32 is AddrBits wide, the linear memory holds MemSize bytes, *)
(* the allocator hands out blocks from HeapBase on (the bytes below are    *)
(* the guest's stack and statics), and every exchanged value is a one-byte *)
(* bool (bincode of a tuple of such values is the concatenation of their   *)
(* bytes).                                                                 *)
(***************************************************************************)
EXTENDS Integers, Sequences, FiniteSets, TLC

VARIABLES
  cfg,      \* KANNADER_CFG, the guest's configuration cell
  heap,     \* the live blocks of the guest allocator, with their owner
  freed,    \* the blocks deallocated during the current call
  mem,      \* the bytes of the linear memory
  h,        \* the frame of the host operation (setup or procedure call)
  g,        \* the frame of the guest entry point being executed
  trace,    \* the steps of the current host operation, in order
  history,  \* the outcome of every finished host operation, in order
  exports,  \* the exports of the module instance, each a name and a type
  budget    \* the host operations the embedder may still start

vars == <<cfg, heap, freed, mem, h, g, trace, history, exports, budget>>

----------------------------------------------------------------------------
(* Bounds of the model *)

AddrBits == 4
MemSize == 8
HeapBase == 3
MaxCalls == 2
MaxExcess == 2
MaxBroken == 1
MaxBuf == 4

(* Program constants *)

Null == 0

U32Max == 2^AddrBits - 1
U32 == 0..U32Max
(* an exchanged value is a bool as bincode writes it, the byte 0 or 1; any   *)
(* other byte (Junk) is no value and fails to deserialize                   *)
Val == 0..1
Junk == CHOOSE b \in 0..2 : b \notin Val
NoCfg == [set |-> FALSE, path |-> 0]
(* a long value (a hostname, a path, a metadata blob) whose encoding passes  *)
(* the range of a u32; it stands for itself by the length of its encoding   *)
Huge == {U32Max + k : k \in 1..MaxExcess}

----------------------------------------------------------------------------
(* The procedure registry SERVER_CONFIG, in its order.  Each argument        *)
(* carries its name and whether it is taken as &mut.                        *)

(* a registry in which filter_hello declares is_ehlo as (&mut), ahead of the *)
(* immutable hostname                                                       *)
ArgEhloMut(name, is_mut) == [name |-> name, is_mut |-> is_mut \/ name = "is_ehlo"]

Arg(name, is_mut) == [name |-> name, is_mut |-> is_mut]

SERVER_CONFIG ==
  << [ffi_name |-> "server_config_welcome_banner_reply", fn_name |-> "welcome_banner_reply",
      args |-> <<Arg("conn_meta", TRUE)>>],
     [ffi_name |-> "server_config_filter_hello", fn_name |-> "filter_hello",
      args |-> <<Arg("is_ehlo", FALSE), Arg("hostname", FALSE), Arg("conn_meta", TRUE)>>],
     [ffi_name |-> "server_config_can_do_tls", fn_name |-> "can_do_tls",
      args |-> <<Arg("conn_meta", FALSE)>>],
     [ffi_name |-> "server_config_new_mail", fn_name |-> "new_mail",
      args |-> <<Arg("conn_meta", TRUE)>>],
     [ffi_name |-> "server_config_filter_from", fn_name |-> "filter_from",
      args |-> <<Arg("from", FALSE), Arg("meta", TRUE), Arg("conn_meta", TRUE)>>],
     [ffi_name |-> "server_config_filter_to", fn_name |-> "filter_to",
      args |-> <<Arg("to", FALSE), Arg("meta", TRUE), Arg("conn_meta", TRUE)>>],
     [ffi_name |-> "server_config_filter_data", fn_name |-> "filter_data",
      args |-> <<Arg("meta", TRUE), Arg("conn_meta", TRUE)>>],
     [ffi_name |-> "server_config_handle_rset", fn_name |-> "handle_rset",
      args |-> <<Arg("meta", TRUE), Arg("conn_meta", TRUE)>>],
     [ffi_name |-> "server_config_handle_starttls", fn_name |-> "handle_starttls",
      args |-> <<Arg("conn_meta", TRUE)>>],
     [ffi_name |-> "server_config_handle_expn", fn_name |-> "handle_expn",
      args |-> <<Arg("name", FALSE), Arg("conn_meta", TRUE)>>],
     [ffi_name |-> "server_config_handle_vrfy", fn_name |-> "handle_vrfy",
      args |-> <<Arg("name", FALSE), Arg("conn_meta", TRUE)>>],
     [ffi_name |-> "server_config_handle_help", fn_name |-> "handle_help",
      args |-> <<Arg("subject", FALSE), Arg("conn_meta", TRUE)>>],
     [ffi_name |-> "server_config_handle_noop", fn_name |-> "handle_noop",
      args |-> <<Arg("string", FALSE), Arg("conn_meta", TRUE)>>],
     [ffi_name |-> "server_config_handle_quit", fn_name |-> "handle_quit",
      args |-> <<Arg("conn_meta", TRUE)>>],
     [ffi_name |-> "server_config_already_did_hello", fn_name |-> "already_did_hello",
      args |-> <<Arg("conn_meta", TRUE)>>],
     [ffi_name |-> "server_config_mail_before_hello", fn_name |-> "mail_before_hello",
      args |-> <<Arg("conn_meta", TRUE)>>],
     [ffi_name |-> "server_config_already_in_mail", fn_name |-> "already_in_mail",
      args |-> <<Arg("conn_meta", TRUE)>>],
     [ffi_name |-> "server_config_rcpt_before_mail", fn_name |-> "rcpt_before_mail",
      args |-> <<Arg("conn_meta", TRUE)>>],
     [ffi_name |-> "server_config_data_before_rcpt", fn_name |-> "data_before_rcpt",
      args |-> <<Arg("conn_meta", TRUE)>>],
     [ffi_name |-> "server_config_data_before_mail", fn_name |-> "data_before_mail",
      args |-> <<Arg("conn_meta", TRUE)>>],
     [ffi_name |-> "server_config_starttls_unsupported", fn_name |-> "starttls_unsupported",
      args |-> <<Arg("conn_meta", TRUE)>>],
     [ffi_name |-> "server_config_command_unrecognized", fn_name |-> "command_unrecognized",
      args |-> <<Arg("conn_meta", TRUE)>>],
     [ffi_name |-> "server_config_pipeline_forbidden_after_starttls", fn_name |-> "pipeline_forbidden_after_starttls",
      args |-> <<Arg("conn_meta", TRUE)>>],
     [ffi_name |-> "server_config_line_too_long", fn_name |-> "line_too_long",
      args |-> <<Arg("conn_meta", TRUE)>>],
     [ffi_name |-> "server_config_handle_mail_did_not_call_complete", fn_name |-> "handle_mail_did_not_call_complete",
      args |-> <<Arg("conn_meta", TRUE)>>],
     [ffi_name |-> "server_config_reply_write_timeout_in_millis", fn_name |-> "reply_write_timeout_in_millis",
      args |-> <<>>],
     [ffi_name |-> "server_config_command_read_timeout_in_millis", fn_name |-> "command_read_timeout_in_millis",
      args |-> <<>>] >>

Procs == 1..Len(SERVER_CONFIG)

(* The macros take any communicator. Beside the registry, one procedure     *)
(* without parameters whose return type is (), which the registry has not:  *)
(*   test_empty => fn empty(&self) -> (()) ;                                *)
EmptyFunction == [ffi_name |-> "test_empty", fn_name |-> "empty", args |-> <<>>]

(* c.funcs *)
Functions == SERVER_CONFIG \o <<EmptyFunction>>

EmptyProc == Len(SERVER_CONFIG) + 1

ArgsOf(p) == Functions[p].args
NArgs(p) == Len(ArgsOf(p))

ProcNamed(name) == CHOOSE p \in Procs : SERVER_CONFIG[p].fn_name = name

(* the procedures whose calls are followed through setup and several calls:  *)
(* one with immutable and mutable arguments, one with an immutable argument *)
(* only, one with mutable arguments only, one without arguments             *)
CalledProcs ==
  {ProcNamed("filter_hello"), ProcNamed("can_do_tls"), ProcNamed("handle_rset"),
   ProcNamed("reply_write_timeout_in_millis")}

(* args.iter().filter_map(is_mut): the arguments taken as &mut, in           *)
(* declaration order                                                        *)
RECURSIVE MutFrom(_, _)
MutFrom(p, i) ==
  IF i > NArgs(p) THEN <<>>
  ELSE (IF ArgsOf(p)[i].is_mut THEN <<i>> ELSE <<>>) \o MutFrom(p, i + 1)

(* make_guest_server's `result` *)
MutIdx(p) == MutFrom(p, 1)

(* the &mut bindings assigned in the opposite order *)
ResultAssignmentReversed(p) ==
  [k \in 1..Len(MutFrom(p, 1)) |-> MutFrom(p, 1)[Len(MutFrom(p, 1)) + 1 - k]]

(* make_host_client's `result_assignment` *)
ResultAssignment(p) == MutFrom(p, 1)

(* the &mut arguments encoded ahead of the others *)
EncodeArgsMutFirst(p) ==
  MutFrom(p, 1) \o SelectSeq([i \in 1..NArgs(p) |-> i], LAMBDA i : ~ArgsOf(p)[i].is_mut)

(* make_host_client's `encode_args`: every argument, in declaration order *)
EncodeArgs(p) == [i \in 1..NArgs(p) |-> i]

(* make_guest_server's `deserialize_pat`: a binding for every argument, in   *)
(* declaration order                                                        *)
DeserializePat(p) == [i \in 1..NArgs(p) |-> i]

Export(name, ty) == <<name, ty>>

(* the types the host asks for: a memory, the setup function, an entry point *)
MemoryTy == "memory"
SetupTy == "(u32, u32) -> ()"
EntryTy == "(u32, u32) -> u64"

(* what a module built with implement_guest and the guest server exports *)
GuestExports ==
  {Export("memory", MemoryTy), Export("allocate", "(u32) -> u32"),
   Export("deallocate", "(u32, u32) -> ()"), Export("setup", SetupTy)} \cup
  {Export(SERVER_CONFIG[p].ffi_name, EntryTy) : p \in Procs}

(* instance.get_memory(name) *)
GetMemory(name) == Export(name, MemoryTy) \in exports

(* instance.get_func(name): an export of that name that is a function *)
GetFunc(name) == \E e \in exports : e[1] = name /\ e[2] # MemoryTy

(* .get2(): the function has the type asked for *)
Get2(name, ty) == Export(name, ty) \in exports

----------------------------------------------------------------------------
(* bincode, on tuples of one-byte values *)

(* the value of type (): bincode encodes it in no byte *)
Unit == -1

(* the values a procedure returns: () for the procedure declared so, a      *)
(* one-byte value for the procedures of the registry                        *)
RetVals(p) == IF p = EmptyProc THEN {Unit} ELSE Val

(* the number of bytes of the primary value in the result encoding *)
RetWidth(p) == IF p = EmptyProc THEN 0 ELSE 1

Width(v) == IF v \in Val THEN 1 ELSE IF v = Unit THEN 0 ELSE v

(* serialized_size returns a u64: the size is not reduced to a u32 here *)
RECURSIVE SerializedSize(_)
SerializedSize(t) == IF t = <<>> THEN 0 ELSE Width(Head(t)) + SerializedSize(Tail(t))

Bytes(v) == IF v \in Val THEN <<v>> ELSE IF v = Unit THEN <<>> ELSE [i \in 1..v |-> Junk]

RECURSIVE Serialize(_)
Serialize(t) == IF t = <<>> THEN <<>> ELSE Bytes(Head(t)) \o Serialize(Tail(t))

(* a decoder that takes no empty buffer *)
DeserializeOkNonEmpty(bytes, n) ==
  /\ Len(bytes) > 0
  /\ Len(bytes) >= n
  /\ \A i \in 1..n : bytes[i] \in Val

(* deserializing a tuple of n one-byte values (and any number of ()): fails *)
(* on a short buffer or on a byte that is no value; trailing bytes are left *)
(* alone                                                                    *)
DeserializeOk(bytes, n) ==
  /\ Len(bytes) >= n
  /\ \A i \in 1..n : bytes[i] \in Val

Deserialize(bytes, n) == [i \in 1..n |-> bytes[i]]

----------------------------------------------------------------------------
(* The linear memory and the guest allocator *)

Max(a, b) == IF a >= b THEN a ELSE b

(* an addition that wraps around at the width of a u32 *)
SaturatingAddWrap(a, b) == (a + b) % (U32Max + 1)

(* usize::saturating_add on the host *)
SaturatingAdd(a, b) == IF a + b > U32Max THEN U32Max ELSE a + b

(* the check with the end of the memory let through *)
InBoundsLe(ptr, size) == SaturatingAdd(ptr, size) <= MemSize

(* the host's check of a (pointer, size) pair against memory.data_size() *)
InBounds(ptr, size) == SaturatingAdd(ptr, size) < MemSize

MemAt(m, i) == IF i \in DOMAIN m THEN m[i] ELSE Junk

(* volatile_copy_nonoverlapping_memory into / out of the memory *)
WriteMem(m, ptr, bytes, size) ==
  [i \in DOMAIN m |->
     IF i >= ptr /\ i < ptr + size
     THEN (IF i - ptr + 1 <= Len(bytes) THEN bytes[i - ptr + 1] ELSE Junk)
     ELSE m[i]]

ReadMem(m, ptr, size) == [i \in 1..size |-> MemAt(m, ptr + i - 1)]

Footprint(ptr, size) == ptr..(ptr + Max(size, 1) - 1)

Block(ptr, size, owner) == [ptr |-> ptr, size |-> size, owner |-> owner]

IsLive(ptr, size) == \E b \in heap : b.ptr = ptr /\ b.size = size

(* who owns the region: the owner of the live block, "freed" for a block     *)
(* deallocated during this call, "none" for memory that is no block         *)
OwnerOf(ptr, size) ==
  IF IsLive(ptr, size)
  THEN (CHOOSE b \in heap : b.ptr = ptr /\ b.size = size).owner
  ELSE IF [ptr |-> ptr, size |-> size] \in freed THEN "freed" ELSE "none"

(* allocate: std::alloc::alloc returns null or a block of the heap that      *)
(* overlaps no live block                                                   *)
AllocChoices(size) ==
  {Null} \cup
  {p \in HeapBase..(MemSize - 1) :
     /\ p + size <= MemSize
     /\ \A b \in heap : Footprint(b.ptr, b.size) \cap Footprint(p, size) = {}}

HeapAfterAlloc(ptr, size, owner) ==
  IF ptr = Null THEN heap ELSE heap \cup {Block(ptr, size, owner)}

FreedAfterAlloc(ptr, size) ==
  IF ptr = Null THEN freed
  ELSE {f \in freed : Footprint(f.ptr, f.size) \cap Footprint(ptr, size) = {}}

(* deallocate of a live block: the block leaves the heap and its bytes are   *)
(* the allocator's                                                          *)
HeapAfterDealloc(ptr, size) == {b \in heap : ~(b.ptr = ptr /\ b.size = size)}

FreedAfterDealloc(ptr, size) ==
  IF IsLive(ptr, size) THEN freed \cup {[ptr |-> ptr, size |-> size]} ELSE freed

MemAfterDealloc(ptr, size) ==
  IF IsLive(ptr, size)
  THEN [i \in DOMAIN mem |-> IF i >= ptr /\ i < ptr + size THEN Junk ELSE mem[i]]
  ELSE mem

----------------------------------------------------------------------------
(* Frames, steps and outcomes *)

Ev(who, op, ptr, size, ok) ==
  [who |-> who, op |-> op, ptr |-> ptr, size |-> size, ok |-> ok,
   own |-> OwnerOf(ptr, size)]

Step(who, op, ok) == Ev(who, op, 0, 0, ok)

IdleHost ==
  [pc |-> "idle", kind |-> "none", proc |-> 0, args |-> <<>>,
   arg_size |-> 0, arg_ptr |-> 0, arg_vec |-> <<>>,
   res_ptr |-> 0, res_size |-> 0, res_msg |-> <<>>, res |-> 0, cfg0 |-> NoCfg,
   debug |-> FALSE]

IdleGuest ==
  [pc |-> "idle", kind |-> "none", proc |-> 0, arg_ptr |-> 0, arg_size |-> 0, args |-> <<>>,
   ret |-> 0, res |-> <<>>, ret_size |-> 0, ret_ptr |-> 0, word |-> 0]

(* the name the error messages of an operation quote *)
FfiName(kind, proc) ==
  IF kind = "call" /\ proc \in DOMAIN Functions THEN Functions[proc].ffi_name
  ELSE IF kind = "build" /\ proc \in Procs THEN SERVER_CONFIG[proc].ffi_name
  ELSE IF kind = "build" THEN "memory"
  ELSE "setup"

(* the message of the error an operation returns from a phase: the text of   *)
(* its format string around the name it quotes                              *)
ErrorContext(kind, proc, phase) ==
  LET name == FfiName(kind, proc)
  IN CASE phase = "size" ->
            <<"Figuring out size to allocate for argument buffer for ", name>>
       [] phase = "alloc" -> <<"Allocating argument buffer for ", name>>
       [] phase = "check_arg" ->
            <<"Wasm allocator returned allocation outside of its memory">>
       [] phase = "serialize" -> <<"Serializing argument buffer for ", name>>
       [] phase = "run" -> <<"Running wasm function ", name>>
       [] phase = "check_res" ->
            <<"Wasm function ", name, " returned allocation outside of its memory">>
       [] phase = "dealloc" -> <<"Deallocating return buffer for function ", name>>
       [] phase = "decode" -> <<"Deserializing return message of ", name>>
       [] phase = "memory" -> <<"Failed to find memory export ", name>>
       [] phase = "get_func" -> <<"Failed to find function export ", name>>
       [] phase = "get2" -> <<"Checking the type of ", name>>
       [] phase = "resolve" ->
            IF ~GetMemory("memory") THEN <<"Failed to find memory export ", "memory">>
            ELSE IF ~GetFunc(name) THEN <<"Failed to find function export ", name>>
            ELSE <<"Checking the type of ", name>>
       [] OTHER -> <<"panicked">>

Outcome(kind, proc, ok, phase, cfg1) ==
  [kind |-> kind, proc |-> proc, ok |-> ok, phase |-> phase,
   err |-> IF ok THEN <<>> ELSE ErrorContext(kind, proc, phase),
   cfg0 |-> h.cfg0, cfg1 |-> cfg1]

Init ==
  /\ cfg = NoCfg
  /\ heap = {}
  /\ freed = {}
  /\ mem = [i \in 0..(MemSize - 1) |-> Junk]
  /\ h = IdleHost
  /\ g = IdleGuest
  /\ trace = <<>>
  /\ history = <<>>
  /\ exports = GuestExports
  /\ budget = MaxCalls

----------------------------------------------------------------------------
(* The statement order of the generated code, as the sequence of positions   *)
(* a frame goes through                                                     *)

IndexOf(order, pc) == CHOOSE i \in 1..Len(order) : order[i] = pc

After(order, pc) ==
  IF IndexOf(order, pc) = Len(order) THEN "done" ELSE order[IndexOf(order, pc) + 1]

(* the closure with the result block freed before it is read *)
HostCallOrderEarlyFree ==
  <<"size", "alloc", "check_arg", "serialize", "write", "invoke",
    "unpack", "check_res", "dealloc", "read", "decode">>

(* the closure with the result read before its pair is checked *)
HostCallOrderReadFirst ==
  <<"size", "alloc", "check_arg", "serialize", "write", "invoke",
    "unpack", "read", "check_res", "dealloc", "decode">>

(* make_host_client, the body of the generated closure *)
HostCallOrder ==
  <<"size", "alloc", "check_arg", "serialize", "write", "invoke",
    "unpack", "check_res", "read", "dealloc", "decode">>

HostAfter(pc) == After(HostCallOrder, pc)

(* a setup that looks its exports up after it allocated *)
SetupOrderLateResolve ==
  <<"size", "alloc", "resolve", "check_arg", "serialize", "write", "invoke", "returned">>

(* implement_host, the body of setup *)
SetupOrder ==
  <<"resolve", "size", "alloc", "check_arg", "serialize", "write", "invoke", "returned">>

SetupAfter(pc) == After(SetupOrder, pc)

(* the entry point with the argument block freed after the result is written *)
GuestOrderLateFree == <<"read", "call", "alloc", "write", "dealloc", "return">>

(* the entry point with the argument block freed in the return phase *)
GuestOrderFreeInReturn == <<"read", "call", "alloc", "dealloc", "write", "return">>

(* make_guest_server, the body of the generated entry point *)
GuestOrder == <<"read", "dealloc", "call", "alloc", "write", "return">>

GuestAfter(pc) == After(GuestOrder, pc)

ToU32(n) == n % (U32Max + 1)

(* the size shifted one bit short of the width of an address *)
PackShort(size, ptr) == size * 2^(AddrBits - 1) + ptr

(* the word an entry point returns, and the host's reading of it *)
Pack(size, ptr) == size * (U32Max + 1) + ptr
UnpackPtr(word) == word % (U32Max + 1)
UnpackSize(word) == (word \div (U32Max + 1)) % (U32Max + 1)

----------------------------------------------------------------------------
(* The host client: one call of a generated closure *)

(* an error that is noted and then ignored: the operation goes on *)
HostFailSwallowed(op, ptr, size) ==
  /\ h' = [h EXCEPT !.pc = IF h.kind = "setup" THEN SetupAfter(h.pc) ELSE HostAfter(h.pc)]
  /\ trace' = Append(trace, Ev("host", op, ptr, size, FALSE))
  /\ history' = history

(* an error after which the host asks the allocator once more *)
HostFailRetry(op, ptr, size) ==
  IF op = "check_arg" /\ Cardinality({i \in 1..Len(trace) : trace[i].op = "alloc"}) < 2
  THEN /\ h' = [h EXCEPT !.pc = "alloc"]
       /\ trace' = Append(trace, Ev("host", op, ptr, size, FALSE))
       /\ history' = history
  ELSE /\ h' = [h EXCEPT !.pc = "idle"]
       /\ trace' = Append(trace, Ev("host", op, ptr, size, FALSE))
       /\ history' = Append(history, Outcome(h.kind, h.proc, FALSE, op, cfg))

(* an error return: `?` and ensure! leave the closure at once *)
HostFail(op, ptr, size) ==
  /\ h' = [h EXCEPT !.pc = "idle"]
  /\ trace' = Append(trace, Ev("host", op, ptr, size, FALSE))
  /\ history' = Append(history, Outcome(h.kind, h.proc, FALSE, op, cfg))

(* a debug_assert! that fails where debug assertions are compiled in: the    *)
(* host panics and the operation returns nothing                            *)
HostPanic(op) ==
  /\ h' = [h EXCEPT !.pc = "idle"]
  /\ trace' = Append(trace, Step("host", op, FALSE))
  /\ history' = Append(history, Outcome(h.kind, h.proc, FALSE, "panic", cfg))

(* let arg = (encode_args..) *)
HostArg(p, a) == [k \in 1..Len(EncodeArgs(p)) |-> a[EncodeArgs(p)[k]]]

HostCall(p, a) ==
  /\ h.pc = "idle"
  /\ budget > 0
  /\ budget' = budget - 1
  /\ h' = [IdleHost EXCEPT !.pc = Head(HostCallOrder), !.kind = "call",
                           !.proc = p, !.args = a, !.cfg0 = cfg, !.debug = h.debug]
  /\ g' = IdleGuest
  /\ trace' = <<>>
  /\ freed' = {}
  /\ UNCHANGED <<cfg, heap, mem, history, exports>>

HostSize ==
  /\ h.pc = "size" /\ h.kind = "call"
  /\ LET arg_size == SerializedSize(HostArg(h.proc, h.args))
     IN IF h.debug /\ arg_size > U32Max
        THEN HostPanic("size_assert")
        ELSE /\ h' = [h EXCEPT !.arg_size = ToU32(arg_size), !.pc = HostAfter("size")]
             /\ trace' = Append(trace, Step("host", "size", TRUE))
             /\ UNCHANGED history
  /\ UNCHANGED <<cfg, heap, freed, mem, g, exports, budget>>

HostAllocate ==
  /\ h.pc = "alloc" /\ h.kind = "call"
  /\ \E ptr \in AllocChoices(h.arg_size) :
       /\ h' = [h EXCEPT !.arg_ptr = ptr, !.pc = HostAfter("alloc")]
       /\ heap' = HeapAfterAlloc(ptr, h.arg_size, "host")
       /\ freed' = FreedAfterAlloc(ptr, h.arg_size)
       /\ trace' = Append(trace, Ev("host", "alloc", ptr, h.arg_size, TRUE))
  /\ UNCHANGED <<cfg, mem, g, history, exports, budget>>

(* a check of the argument block that gives the block back to the guest    *)
(* allocator before it returns the error                                    *)
HostCheckArgFree ==
  /\ h.pc = "check_arg" /\ h.kind = "call"
  /\ IF InBounds(h.arg_ptr, h.arg_size)
     THEN /\ h' = [h EXCEPT !.pc = HostAfter("check_arg")]
          /\ trace' = Append(trace, Ev("host", "check_arg", h.arg_ptr, h.arg_size, TRUE))
          /\ UNCHANGED <<history, heap, freed, mem>>
     ELSE /\ HostFail("check_arg", h.arg_ptr, h.arg_size)
          /\ heap' = HeapAfterDealloc(h.arg_ptr, h.arg_size)
          /\ freed' = FreedAfterDealloc(h.arg_ptr, h.arg_size)
          /\ mem' = MemAfterDealloc(h.arg_ptr, h.arg_size)
  /\ UNCHANGED <<cfg, g, exports, budget>>

HostCheckArg ==
  /\ h.pc = "check_arg" /\ h.kind = "call"
  /\ IF InBounds(h.arg_ptr, h.arg_size)
     THEN /\ h' = [h EXCEPT !.pc = HostAfter("check_arg")]
          /\ trace' = Append(trace, Ev("host", "check_arg", h.arg_ptr, h.arg_size, TRUE))
          /\ UNCHANGED history
     ELSE HostFail("check_arg", h.arg_ptr, h.arg_size)
  /\ UNCHANGED <<cfg, heap, freed, mem, g, exports, budget>>

HostSerialize ==
  /\ h.pc = "serialize" /\ h.kind = "call"
  /\ LET arg_vec == Serialize(HostArg(h.proc, h.args))
     IN IF h.debug /\ Len(arg_vec) # h.arg_size
        THEN HostPanic("len_assert")
        ELSE /\ h' = [h EXCEPT !.arg_vec = arg_vec, !.pc = HostAfter("serialize")]
             /\ trace' = Append(trace, Step("host", "serialize", TRUE))
             /\ UNCHANGED history
  /\ UNCHANGED <<cfg, heap, freed, mem, g, exports, budget>>

(* the write at an address the host picked itself, the start of the heap *)
HostWriteAtBase ==
  /\ h.pc = "write" /\ h.kind = "call"
  /\ mem' = WriteMem(mem, HeapBase, h.arg_vec, h.arg_size)
  /\ h' = [h EXCEPT !.pc = HostAfter("write")]
  /\ trace' = Append(trace, Ev("host", "write", HeapBase, h.arg_size, TRUE))
  /\ UNCHANGED <<cfg, heap, freed, g, history, exports, budget>>

HostWrite ==
  /\ h.pc = "write" /\ h.kind = "call"
  /\ mem' = WriteMem(mem, h.arg_ptr, h.arg_vec, h.arg_size)
  /\ h' = [h EXCEPT !.pc = HostAfter("write")]
  /\ trace' = Append(trace, Ev("host", "write", h.arg_ptr, h.arg_size, TRUE))
  /\ UNCHANGED <<cfg, heap, freed, g, history, exports, budget>>

(* wasm_fun(arg_ptr, arg_size): the argument block passes to the guest *)
HostInvoke ==
  /\ h.pc = "invoke" /\ h.kind = "call"
  /\ h' = [h EXCEPT !.pc = HostAfter("invoke")]
  /\ g' = [IdleGuest EXCEPT !.pc = Head(GuestOrder), !.kind = "call", !.proc = h.proc,
                            !.arg_ptr = h.arg_ptr, !.arg_size = h.arg_size]
  /\ heap' = {IF b.ptr = h.arg_ptr /\ b.size = h.arg_size
              THEN [b EXCEPT !.owner = "guest"] ELSE b : b \in heap}
  /\ trace' = Append(trace, Ev("host", "invoke", h.arg_ptr, h.arg_size, TRUE))
  /\ UNCHANGED <<cfg, freed, mem, history, exports, budget>>

HostUnpack ==
  /\ h.pc = "unpack" /\ h.kind = "call"
  /\ g.pc \in {"returned", "trapped"}
  /\ IF g.pc = "returned"
     THEN /\ h' = [h EXCEPT !.res_ptr = UnpackPtr(g.word), !.res_size = UnpackSize(g.word),
                            !.pc = HostAfter("unpack")]
          /\ trace' = Append(trace, Step("host", "unpack", TRUE))
          /\ UNCHANGED history
     ELSE HostFail("run", 0, 0)
  /\ UNCHANGED <<cfg, heap, freed, mem, g, exports, budget>>

HostCheckRes ==
  /\ h.pc = "check_res" /\ h.kind = "call"
  /\ IF InBounds(h.res_ptr, h.res_size)
     THEN /\ h' = [h EXCEPT !.pc = HostAfter("check_res")]
          /\ trace' = Append(trace, Ev("host", "check_res", h.res_ptr, h.res_size, TRUE))
          /\ UNCHANGED history
     ELSE HostFail("check_res", h.res_ptr, h.res_size)
  /\ UNCHANGED <<cfg, heap, freed, mem, g, exports, budget>>

HostRead ==
  /\ h.pc = "read" /\ h.kind = "call"
  /\ h' = [h EXCEPT !.res_msg = ReadMem(mem, h.res_ptr, h.res_size), !.pc = HostAfter("read")]
  /\ trace' = Append(trace, Ev("host", "read", h.res_ptr, h.res_size, TRUE))
  /\ UNCHANGED <<cfg, heap, freed, mem, g, history, exports, budget>>

(* deallocate(res_ptr, res_size): freeing what is no live block is undefined *)
(* in the guest, which then goes on or traps                                *)
HostDealloc ==
  /\ h.pc = "dealloc" /\ h.kind = "call"
  /\ \/ /\ h' = [h EXCEPT !.pc = HostAfter("dealloc")]
        /\ heap' = HeapAfterDealloc(h.res_ptr, h.res_size)
        /\ freed' = FreedAfterDealloc(h.res_ptr, h.res_size)
        /\ mem' = MemAfterDealloc(h.res_ptr, h.res_size)
        /\ trace' = Append(trace, Ev("host", "dealloc", h.res_ptr, h.res_size, TRUE))
        /\ UNCHANGED history
     \/ /\ ~IsLive(h.res_ptr, h.res_size)
        /\ HostFail("dealloc", h.res_ptr, h.res_size)
        /\ UNCHANGED <<heap, freed, mem>>
  /\ UNCHANGED <<cfg, g, exports, budget>>

(* a decoding that assigns each &mut binding as soon as its field is read,  *)
(* before it is known that the whole tuple decodes                          *)
HostDecodeEager ==
  /\ h.pc = "decode" /\ h.kind = "call"
  /\ LET mi == ResultAssignment(h.proc)
         w == RetWidth(h.proc)
         n == w + Len(mi)
         back == [i \in 1..Len(h.args) |->
                    IF \E k \in 1..Len(mi) : mi[k] = i /\ w + k <= Len(h.res_msg)
                    THEN h.res_msg[w + (CHOOSE k \in 1..Len(mi) : mi[k] = i)]
                    ELSE h.args[i]]
     IN IF DeserializeOk(h.res_msg, n)
        THEN /\ h' = [h EXCEPT !.res = IF w = 0 THEN Unit ELSE h.res_msg[1],
                               !.args = back, !.pc = "idle"]
             /\ trace' = trace \o <<Step("host", "decode", TRUE),
                                    Step("host", "writeback", TRUE),
                                    Step("host", "return", TRUE)>>
             /\ history' = Append(history, Outcome("call", h.proc, TRUE, "return", cfg))
        ELSE /\ h' = [h EXCEPT !.args = back, !.pc = "idle"]
             /\ trace' = Append(trace, Ev("host", "decode", 0, 0, FALSE))
             /\ history' = Append(history, Outcome(h.kind, h.proc, FALSE, "decode", cfg))
  /\ UNCHANGED <<cfg, heap, freed, mem, g, exports, budget>>

(* (res, *m1, *m2, ..) = bincode::deserialize(&res_msg)?; Ok(res) *)
HostDecode ==
  /\ h.pc = "decode" /\ h.kind = "call"
  /\ LET mi == ResultAssignment(h.proc)
         w == RetWidth(h.proc)
         n == w + Len(mi)
         back == [i \in 1..Len(h.args) |->
                    IF \E k \in 1..Len(mi) : mi[k] = i
                    THEN h.res_msg[w + (CHOOSE k \in 1..Len(mi) : mi[k] = i)]
                    ELSE h.args[i]]
     IN IF DeserializeOk(h.res_msg, n)
        THEN /\ h' = [h EXCEPT !.res = IF w = 0 THEN Unit ELSE h.res_msg[1],
                               !.args = back, !.pc = "idle"]
             /\ trace' = trace \o <<Step("host", "decode", TRUE),
                                    Step("host", "writeback", TRUE),
                                    Step("host", "return", TRUE)>>
             /\ history' = Append(history, Outcome("call", h.proc, TRUE, "return", cfg))
        ELSE HostFail("decode", 0, 0)
  /\ UNCHANGED <<cfg, heap, freed, mem, g, exports, budget>>

----------------------------------------------------------------------------
(* The guest: one generated entry point *)

(* a panic in the guest (unwrap, assert!) is a trap *)
GuestTrap(op, ptr, size) ==
  /\ g' = [g EXCEPT !.pc = "trapped"]
  /\ trace' = Append(trace, Ev("guest", op, ptr, size, FALSE))

(* let (deserialize_pat..) = ..: each argument is bound to the field         *)
(* at its place in the pattern                                              *)
GuestBind(p, t) == [i \in 1..NArgs(p) |-> t[IndexOf(DeserializePat(p), i)]]

GuestRead ==
  /\ g.pc = "read" /\ g.kind = "call"
  /\ LET bytes == ReadMem(mem, g.arg_ptr, g.arg_size)
         n == NArgs(g.proc)
     IN IF DeserializeOk(bytes, n)
        THEN /\ g' = [g EXCEPT !.args = GuestBind(g.proc, Deserialize(bytes, n)),
                               !.pc = GuestAfter("read")]
             /\ trace' = Append(trace, Ev("guest", "read", g.arg_ptr, g.arg_size, TRUE))
        ELSE GuestTrap("read", g.arg_ptr, g.arg_size)
  /\ UNCHANGED <<cfg, heap, freed, mem, h, history, exports, budget>>

GuestDealloc ==
  /\ g.pc = "dealloc" /\ g.kind = "call"
  /\ \/ /\ g' = [g EXCEPT !.pc = GuestAfter("dealloc")]
        /\ heap' = HeapAfterDealloc(g.arg_ptr, g.arg_size)
        /\ freed' = FreedAfterDealloc(g.arg_ptr, g.arg_size)
        /\ mem' = MemAfterDealloc(g.arg_ptr, g.arg_size)
        /\ trace' = Append(trace, Ev("guest", "dealloc", g.arg_ptr, g.arg_size, TRUE))
     \/ /\ ~IsLive(g.arg_ptr, g.arg_size)
        /\ GuestTrap("dealloc", g.arg_ptr, g.arg_size)
        /\ UNCHANGED <<heap, freed, mem>>
  /\ UNCHANGED <<cfg, h, history, exports, budget>>

(* the implementation of the policy object: it returns any primary value    *)
(* and leaves any value in each &mut argument (the others are its own), or  *)
(* it panics                                                                *)
ImplResults(p, a) ==
  {[ret |-> r, args |-> b] :
     r \in RetVals(p),
     b \in {c \in [1..NArgs(p) -> Val] : \A i \in 1..NArgs(p) : ~ArgsOf(p)[i].is_mut => c[i] = a[i]}}

(* the first arguments echoed, whichever are taken as &mut *)
ResultTupleByPlace(p, ret, a) == <<ret>> \o [k \in 1..Len(MutIdx(p)) |-> a[k]]

(* let res = (res, result..): the primary value, then the &mut arguments *)
ResultTuple(p, ret, a) == <<ret>> \o [k \in 1..Len(MutIdx(p)) |-> a[MutIdx(p)[k]]]

(* a configuration handed to the implementation whether or not one is set *)
CfgUnwrapUnchecked == TRUE

(* cfg.borrow().as_ref().unwrap() *)
CfgUnwrap == cfg.set

(* an entry point that takes the configuration out of KANNADER_CFG to call  *)
(* the implementation                                                       *)
GuestCallTake ==
  /\ g.pc = "call" /\ g.kind = "call"
  /\ IF CfgUnwrap
     THEN /\ cfg' = NoCfg
          /\ \/ \E r \in ImplResults(g.proc, g.args) :
                  /\ g' = [g EXCEPT !.ret = r.ret, !.args = r.args,
                                    !.res = ResultTuple(g.proc, r.ret, r.args),
                                    !.pc = GuestAfter("call")]
                  /\ trace' = Append(trace, Step("guest", "impl", TRUE))
             \/ GuestTrap("impl", 0, 0)
     ELSE GuestTrap("call", 0, 0) /\ UNCHANGED cfg
  /\ UNCHANGED <<heap, freed, mem, h, history, exports, budget>>

GuestCall ==
  /\ g.pc = "call" /\ g.kind = "call"
  /\ IF CfgUnwrap
     THEN \/ \E r \in ImplResults(g.proc, g.args) :
               /\ g' = [g EXCEPT !.ret = r.ret, !.args = r.args,
                                 !.res = ResultTuple(g.proc, r.ret, r.args),
                                 !.pc = GuestAfter("call")]
               /\ trace' = Append(trace, Step("guest", "impl", TRUE))
          \/ GuestTrap("impl", 0, 0)
     ELSE GuestTrap("call", 0, 0)
  /\ UNCHANGED <<cfg, heap, freed, mem, h, history, exports, budget>>

GuestAlloc ==
  /\ g.pc = "alloc" /\ g.kind = "call"
  /\ LET size == SerializedSize(g.res)
     IN \E ptr \in AllocChoices(size) :
          /\ g' = [g EXCEPT !.ret_size = size, !.ret_ptr = ptr, !.pc = GuestAfter("alloc")]
          /\ heap' = HeapAfterAlloc(ptr, size, "guest")
          /\ freed' = FreedAfterAlloc(ptr, size)
          /\ trace' = Append(trace, Ev("guest", "alloc", ptr, size, TRUE))
  /\ UNCHANGED <<cfg, mem, h, history, exports, budget>>

GuestWrite ==
  /\ g.pc = "write" /\ g.kind = "call"
  /\ mem' = WriteMem(mem, g.ret_ptr, Serialize(g.res), g.ret_size)
  /\ g' = [g EXCEPT !.pc = GuestAfter("write")]
  /\ trace' = Append(trace, Ev("guest", "write", g.ret_ptr, g.ret_size, TRUE))
  /\ UNCHANGED <<cfg, heap, freed, h, history, exports, budget>>

(* the return of the packed word: the result block passes to the host *)
GuestReturn ==
  /\ g.pc = "return" /\ g.kind = "call"
  /\ g' = [g EXCEPT !.word = Pack(g.ret_size, g.ret_ptr), !.pc = "returned"]
  /\ heap' = {IF b.ptr = g.ret_ptr /\ b.size = g.ret_size
              THEN [b EXCEPT !.owner = "host"] ELSE b : b \in heap}
  /\ trace' = Append(trace, Ev("guest", "return", g.ret_ptr, g.ret_size, TRUE))
  /\ UNCHANGED <<cfg, freed, mem, h, history, exports, budget>>

----------------------------------------------------------------------------
(* The host setup (implement_host) *)

Paths == Val \cup {Junk}

(* bincode of a path: a path that is no UTF-8 (Junk) cannot be serialized *)
PathSerializable(path) == path \in Val \cup Huge

HostSetup(path) ==
  /\ h.pc = "idle"
  /\ budget > 0
  /\ budget' = budget - 1
  /\ h' = [IdleHost EXCEPT !.pc = Head(SetupOrder), !.kind = "setup",
                           !.args = <<path>>, !.cfg0 = cfg, !.debug = h.debug]
  /\ g' = IdleGuest
  /\ trace' = <<>>
  /\ freed' = {}
  /\ UNCHANGED <<cfg, heap, mem, history, exports>>

(* instance.get_memory("memory") and instance.get_func("setup") *)
SetupResolve ==
  /\ h.pc = "resolve" /\ h.kind = "setup"
  /\ IF GetMemory("memory") /\ GetFunc("setup") /\ Get2("setup", SetupTy)
     THEN /\ h' = [h EXCEPT !.pc = SetupAfter("resolve")]
          /\ trace' = Append(trace, Step("host", "resolve", TRUE))
          /\ UNCHANGED history
     ELSE HostFail("resolve", 0, 0)
  /\ UNCHANGED <<cfg, heap, freed, mem, g, exports, budget>>

SetupSize ==
  /\ h.pc = "size" /\ h.kind = "setup"
  /\ IF PathSerializable(h.args[1])
     THEN IF h.debug /\ SerializedSize(h.args) > U32Max
          THEN HostPanic("size_assert")
          ELSE /\ h' = [h EXCEPT !.arg_size = ToU32(SerializedSize(h.args)),
                                 !.pc = SetupAfter("size")]
               /\ trace' = Append(trace, Step("host", "size", TRUE))
               /\ UNCHANGED history
     ELSE HostFail("size", 0, 0)
  /\ UNCHANGED <<cfg, heap, freed, mem, g, exports, budget>>

SetupAllocate ==
  /\ h.pc = "alloc" /\ h.kind = "setup"
  /\ \E ptr \in AllocChoices(h.arg_size) :
       /\ h' = [h EXCEPT !.arg_ptr = ptr, !.pc = SetupAfter("alloc")]
       /\ heap' = HeapAfterAlloc(ptr, h.arg_size, "host")
       /\ freed' = FreedAfterAlloc(ptr, h.arg_size)
       /\ trace' = Append(trace, Ev("host", "alloc", ptr, h.arg_size, TRUE))
  /\ UNCHANGED <<cfg, mem, g, history, exports, budget>>

SetupInBounds(ptr, size) == SaturatingAdd(ptr, size) < MemSize

SetupCheckArg ==
  /\ h.pc = "check_arg" /\ h.kind = "setup"
  /\ IF SetupInBounds(h.arg_ptr, h.arg_size)
     THEN /\ h' = [h EXCEPT !.pc = SetupAfter("check_arg")]
          /\ trace' = Append(trace, Ev("host", "check_arg", h.arg_ptr, h.arg_size, TRUE))
          /\ UNCHANGED history
     ELSE HostFail("check_arg", h.arg_ptr, h.arg_size)
  /\ UNCHANGED <<cfg, heap, freed, mem, g, exports, budget>>

SetupSerialize ==
  /\ h.pc = "serialize" /\ h.kind = "setup"
  /\ IF h.debug /\ Len(Serialize(h.args)) # h.arg_size
     THEN HostPanic("len_assert")
     ELSE /\ h' = [h EXCEPT !.arg_vec = Serialize(h.args), !.pc = SetupAfter("serialize")]
          /\ trace' = Append(trace, Step("host", "serialize", TRUE))
          /\ UNCHANGED history
  /\ UNCHANGED <<cfg, heap, freed, mem, g, exports, budget>>

SetupWrite ==
  /\ h.pc = "write" /\ h.kind = "setup"
  /\ mem' = WriteMem(mem, h.arg_ptr, h.arg_vec, h.arg_size)
  /\ h' = [h EXCEPT !.pc = SetupAfter("write")]
  /\ trace' = Append(trace, Ev("host", "write", h.arg_ptr, h.arg_size, TRUE))
  /\ UNCHANGED <<cfg, heap, freed, g, history, exports, budget>>

SetupInvoke ==
  /\ h.pc = "invoke" /\ h.kind = "setup"
  /\ h' = [h EXCEPT !.pc = SetupAfter("invoke")]
  /\ g' = [IdleGuest EXCEPT !.pc = "read", !.kind = "setup",
                            !.arg_ptr = h.arg_ptr, !.arg_size = h.arg_size]
  /\ heap' = {IF b.ptr = h.arg_ptr /\ b.size = h.arg_size
              THEN [b EXCEPT !.owner = "guest"] ELSE b : b \in heap}
  /\ trace' = Append(trace, Ev("host", "invoke", h.arg_ptr, h.arg_size, TRUE))
  /\ UNCHANGED <<cfg, freed, mem, history, exports, budget>>

SetupReturned ==
  /\ h.pc = "returned" /\ h.kind = "setup"
  /\ g.pc \in {"returned", "trapped"}
  /\ IF g.pc = "returned"
     THEN /\ h' = [h EXCEPT !.pc = "idle"]
          /\ trace' = Append(trace, Step("host", "return", TRUE))
          /\ history' = Append(history, Outcome("setup", 0, TRUE, "return", cfg))
     ELSE HostFail("run", 0, 0)
  /\ UNCHANGED <<cfg, heap, freed, mem, g, exports, budget>>

----------------------------------------------------------------------------
(* The guest setup entry point and KANNADER_CFG (implement_guest) *)

(* an entry point that does not call deallocate *)
GuestSetupOrderNoFree == <<"read", "run">>

GuestSetupOrder == <<"read", "dealloc", "run">>

GuestSetupAfter(pc) == After(GuestSetupOrder, pc)

GuestSetupRead ==
  /\ g.pc = "read" /\ g.kind = "setup"
  /\ LET bytes == ReadMem(mem, g.arg_ptr, g.arg_size)
     IN IF DeserializeOk(bytes, 1)
        THEN /\ g' = [g EXCEPT !.args = Deserialize(bytes, 1), !.pc = GuestSetupAfter("read")]
             /\ trace' = Append(trace, Ev("guest", "read", g.arg_ptr, g.arg_size, TRUE))
        ELSE GuestTrap("read", g.arg_ptr, g.arg_size)
  /\ UNCHANGED <<cfg, heap, freed, mem, h, history, exports, budget>>

GuestSetupDealloc ==
  /\ g.pc = "dealloc" /\ g.kind = "setup"
  /\ \/ /\ g' = [g EXCEPT !.pc = GuestSetupAfter("dealloc")]
        /\ heap' = HeapAfterDealloc(g.arg_ptr, g.arg_size)
        /\ freed' = FreedAfterDealloc(g.arg_ptr, g.arg_size)
        /\ mem' = MemAfterDealloc(g.arg_ptr, g.arg_size)
        /\ trace' = Append(trace, Ev("guest", "dealloc", g.arg_ptr, g.arg_size, TRUE))
     \/ /\ ~IsLive(g.arg_ptr, g.arg_size)
        /\ GuestTrap("dealloc", g.arg_ptr, g.arg_size)
        /\ UNCHANGED <<heap, freed, mem>>
  /\ UNCHANGED <<cfg, h, history, exports, budget>>

(* the assertion left out *)
CfgIsNoneSkipped == TRUE

(* assert!(cfg.borrow().is_none()) *)
CfgIsNone == ~cfg.set

(* the configuration replaced before the assertion looks at the old one *)
GuestSetupRunReplace ==
  /\ g.pc = "run" /\ g.kind = "setup"
  /\ cfg' = [set |-> TRUE, path |-> g.args[1]]
  /\ IF CfgIsNone
     THEN /\ g' = [g EXCEPT !.pc = "returned"]
          /\ trace' = Append(trace, Step("guest", "config_setup", TRUE))
     ELSE GuestTrap("assert", 0, 0)
  /\ UNCHANGED <<heap, freed, mem, h, history, exports, budget>>

(* assert!(cfg.borrow().is_none());                                          *)
(* *cfg.borrow_mut() = Some(Config::setup(path)), where Config::setup is     *)
(* the policy's own code and may panic                                      *)
GuestSetupRun ==
  /\ g.pc = "run" /\ g.kind = "setup"
  /\ IF CfgIsNone
     THEN \/ /\ cfg' = [set |-> TRUE, path |-> g.args[1]]
             /\ g' = [g EXCEPT !.pc = "returned"]
             /\ trace' = Append(trace, Step("guest", "config_setup", TRUE))
          \/ /\ GuestTrap("config_setup", 0, 0)
             /\ UNCHANGED cfg
     ELSE /\ GuestTrap("assert", 0, 0)
          /\ UNCHANGED cfg
  /\ UNCHANGED <<heap, freed, mem, h, history, exports, budget>>

----------------------------------------------------------------------------
Next ==
  \/ \E p \in CalledProcs : \E a \in [1..NArgs(p) -> Val] : HostCall(p, a)
  \/ HostSize
  \/ HostAllocate
  \/ HostCheckArg
  \/ HostSerialize
  \/ HostWrite
  \/ HostInvoke
  \/ HostUnpack
  \/ HostCheckRes
  \/ HostRead
  \/ HostDealloc
  \/ HostDecode
  \/ GuestRead
  \/ GuestDealloc
  \/ GuestCall
  \/ GuestAlloc
  \/ GuestWrite
  \/ GuestReturn
  \/ \E path \in Paths : HostSetup(path)
  \/ SetupResolve
  \/ SetupSize
  \/ SetupAllocate
  \/ SetupCheckArg
  \/ SetupSerialize
  \/ SetupWrite
  \/ SetupInvoke
  \/ SetupReturned
  \/ GuestSetupRead
  \/ GuestSetupDealloc
  \/ GuestSetupRun

Spec == Init /\ [][Next]_vars

----------------------------------------------------------------------------
(* The host client against a module it does not trust: the allocate and      *)
(* deallocate closures and the exported functions answer anything.  The     *)
(* host client keeps nothing from one operation to the next, so one         *)
(* operation is followed from each initial memory.                          *)

HostAllocateForeign ==
  /\ h.pc = "alloc" /\ h.kind = "call"
  /\ \/ \E ptr \in U32 :
          /\ h' = [h EXCEPT !.arg_ptr = ptr, !.pc = HostAfter("alloc")]
          /\ trace' = Append(trace, Ev("host", "alloc", ptr, h.arg_size, TRUE))
          /\ UNCHANGED history
     \/ HostFail("alloc", 0, h.arg_size)
  /\ UNCHANGED <<cfg, heap, freed, mem, g, exports, budget>>

SetupAllocateForeign ==
  /\ h.pc = "alloc" /\ h.kind = "setup"
  /\ \/ \E ptr \in U32 :
          /\ h' = [h EXCEPT !.arg_ptr = ptr, !.pc = SetupAfter("alloc")]
          /\ trace' = Append(trace, Ev("host", "alloc", ptr, h.arg_size, TRUE))
          /\ UNCHANGED history
     \/ HostFail("alloc", 0, h.arg_size)
  /\ UNCHANGED <<cfg, heap, freed, mem, g, exports, budget>>

HostDeallocForeign ==
  /\ h.pc = "dealloc" /\ h.kind = "call"
  /\ \/ /\ h' = [h EXCEPT !.pc = HostAfter("dealloc")]
        /\ trace' = Append(trace, Ev("host", "dealloc", h.res_ptr, h.res_size, TRUE))
        /\ UNCHANGED history
     \/ HostFail("dealloc", h.res_ptr, h.res_size)
  /\ UNCHANGED <<cfg, heap, freed, mem, g, exports, budget>>

(* an exported function of the module: it traps or returns any word *)
ForeignEntry ==
  /\ g.pc = "read" /\ g.kind = "call"
  /\ \/ \E word \in 0..(Pack(U32Max, U32Max)) :
          /\ g' = [g EXCEPT !.word = word, !.pc = "returned"]
          /\ trace' = Append(trace, Ev("guest", "return", UnpackPtr(word), UnpackSize(word), TRUE))
     \/ GuestTrap("trap", 0, 0)
  /\ UNCHANGED <<cfg, heap, freed, mem, h, history, exports, budget>>

ForeignSetup ==
  /\ g.pc = "read" /\ g.kind = "setup"
  /\ \/ /\ g' = [g EXCEPT !.pc = "returned"]
        /\ trace' = Append(trace, Step("guest", "return", TRUE))
     \/ GuestTrap("trap", 0, 0)
  /\ UNCHANGED <<cfg, heap, freed, mem, h, history, exports, budget>>

InitForeign ==
  /\ cfg = NoCfg
  /\ heap = {}
  /\ freed = {}
  /\ \E fill \in Val \cup {Junk} : mem = [i \in 0..(MemSize - 1) |-> fill]
  /\ h = IdleHost
  /\ g = IdleGuest
  /\ trace = <<>>
  /\ history = <<>>
  /\ exports \in {GuestExports, GuestExports \ {Export("setup", SetupTy)}}
  /\ budget = 1

NextForeign ==
  \/ \E p \in CalledProcs : \E a \in [1..NArgs(p) -> Val] : HostCall(p, a)
  \/ HostSize
  \/ HostAllocateForeign
  \/ HostCheckArg
  \/ HostSerialize
  \/ HostWrite
  \/ HostInvoke
  \/ HostUnpack
  \/ HostCheckRes
  \/ HostRead
  \/ HostDeallocForeign
  \/ HostDecode
  \/ ForeignEntry
  \/ \E path \in Paths : HostSetup(path)
  \/ SetupResolve
  \/ SetupSize
  \/ SetupAllocateForeign
  \/ SetupCheckArg
  \/ SetupSerialize
  \/ SetupWrite
  \/ SetupInvoke
  \/ SetupReturned
  \/ ForeignSetup

SpecForeign == InitForeign /\ [][NextForeign]_vars

----------------------------------------------------------------------------
(* One call of each procedure of the registry on a configured instance: the  *)
(* state a successful setup leaves (a configuration, an empty heap), from   *)
(* which the embedder calls any one generated closure.                      *)

InitRegistry ==
  /\ \E path \in Val :
       /\ cfg = [set |-> TRUE, path |-> path]
       /\ history = <<[kind |-> "setup", proc |-> 0, ok |-> TRUE, phase |-> "return", err |-> <<>>,
                       cfg0 |-> NoCfg, cfg1 |-> [set |-> TRUE, path |-> path]]>>
  /\ heap = {}
  /\ freed = {}
  /\ mem = [i \in 0..(MemSize - 1) |-> Junk]
  /\ h = IdleHost
  /\ g = IdleGuest
  /\ trace = <<>>
  /\ exports = GuestExports
  /\ budget = 1

NextRegistry ==
  \/ \E p \in Procs : \E a \in [1..NArgs(p) -> Val] : HostCall(p, a)
  \/ HostSize
  \/ HostAllocate
  \/ HostCheckArg
  \/ HostSerialize
  \/ HostWrite
  \/ HostInvoke
  \/ HostUnpack
  \/ HostCheckRes
  \/ HostRead
  \/ HostDealloc
  \/ HostDecode
  \/ GuestRead
  \/ GuestDealloc
  \/ GuestCall
  \/ GuestAlloc
  \/ GuestWrite
  \/ GuestReturn

SpecRegistry == InitRegistry /\ [][NextRegistry]_vars

----------------------------------------------------------------------------
(* The default bodies of the registry: a guest whose policy object defines  *)
(* none of the procedures that have one, called on a configured instance.   *)

(* the entries whose terminator is `;`: the policy object has to define them *)
Required == {"welcome_banner_reply", "filter_hello", "new_mail", "filter_from", "filter_to"}

(* the entries whose terminator is a block *)
DefaultProcs == {p \in Procs : SERVER_CONFIG[p].fn_name \notin Required}

(* a default handle_rset that forgets the mail in progress: *meta = None *)
DefaultBodyRsetClears(p, a) ==
  IF SERVER_CONFIG[p].fn_name = "handle_rset"
  THEN {[ret |-> 0, args |-> [a EXCEPT ![1] = 0]]}
  ELSE {[ret |-> 0, args |-> a]}

(* the block of an entry, called with the arguments a: its value and the    *)
(* arguments after it. can_do_tls and handle_starttls compute their value   *)
(* from conn_meta and from Self::can_do_tls, which is given a clone of       *)
(* conn_meta; the others are one constructor expression. No block assigns   *)
(* through a parameter.                                                     *)
DefaultBody(p, a) ==
  IF SERVER_CONFIG[p].fn_name \in {"can_do_tls", "handle_starttls"}
  THEN {[ret |-> r, args |-> a] : r \in RetVals(p)}
  ELSE {[ret |-> 0, args |-> a]}

(* the entry point of a procedure that the trait serves with its block *)
GuestCallDefault ==
  /\ g.pc = "call" /\ g.kind = "call"
  /\ IF CfgUnwrap
     THEN \E r \in DefaultBody(g.proc, g.args) :
            /\ g' = [g EXCEPT !.ret = r.ret, !.args = r.args,
                              !.res = ResultTuple(g.proc, r.ret, r.args),
                              !.pc = GuestAfter("call")]
            /\ trace' = Append(trace, Step("guest", "impl", TRUE))
     ELSE GuestTrap("call", 0, 0)
  /\ UNCHANGED <<cfg, heap, freed, mem, h, history, exports, budget>>

NextDefault ==
  \/ \E p \in DefaultProcs : \E a \in [1..NArgs(p) -> Val] : HostCall(p, a)
  \/ HostSize
  \/ HostAllocate
  \/ HostCheckArg
  \/ HostSerialize
  \/ HostWrite
  \/ HostInvoke
  \/ HostUnpack
  \/ HostCheckRes
  \/ HostRead
  \/ HostDealloc
  \/ HostDecode
  \/ GuestRead
  \/ GuestDealloc
  \/ GuestCallDefault
  \/ GuestAlloc
  \/ GuestWrite
  \/ GuestReturn

SpecDefault == InitRegistry /\ [][NextDefault]_vars

----------------------------------------------------------------------------
(* Calls with empty encodings on a configured instance: the procedure        *)
(* without parameters that returns (), and a procedure of the registry      *)
(* without parameters.                                                      *)

EmptyArgProcs == {EmptyProc, ProcNamed("reply_write_timeout_in_millis")}

InitEmpty ==
  /\ \E path \in Val :
       /\ cfg = [set |-> TRUE, path |-> path]
       /\ history = <<[kind |-> "setup", proc |-> 0, ok |-> TRUE, phase |-> "return", err |-> <<>>,
                       cfg0 |-> NoCfg, cfg1 |-> [set |-> TRUE, path |-> path]]>>
  /\ heap = {}
  /\ freed = {}
  /\ mem = [i \in 0..(MemSize - 1) |-> Junk]
  /\ h = IdleHost
  /\ g = IdleGuest
  /\ trace = <<>>
  /\ exports = GuestExports \cup {Export(EmptyFunction.ffi_name, EntryTy)}
  /\ budget = MaxCalls

NextEmpty ==
  \/ \E p \in EmptyArgProcs : HostCall(p, <<>>)
  \/ HostSize
  \/ HostAllocate
  \/ HostCheckArg
  \/ HostSerialize
  \/ HostWrite
  \/ HostInvoke
  \/ HostUnpack
  \/ HostCheckRes
  \/ HostRead
  \/ HostDealloc
  \/ HostDecode
  \/ GuestRead
  \/ GuestDealloc
  \/ GuestCall
  \/ GuestAlloc
  \/ GuestWrite
  \/ GuestReturn

SpecEmpty == InitEmpty /\ [][NextEmpty]_vars

----------------------------------------------------------------------------
(* The return word, for every address and every size of a u32: an entry      *)
(* point about to return the pair (ret_size, ret_ptr) and the closure       *)
(* waiting for its word.                                                    *)

InitPack ==
  /\ cfg = [set |-> TRUE, path |-> 0]
  /\ heap = {}
  /\ freed = {}
  /\ mem = [i \in 0..(MemSize - 1) |-> Junk]
  /\ \E p \in CalledProcs :
       /\ h = [IdleHost EXCEPT !.pc = "unpack", !.kind = "call", !.proc = p, !.cfg0 = cfg]
       /\ \E ptr \in U32, size \in U32 :
            g = [IdleGuest EXCEPT !.pc = "return", !.kind = "call", !.proc = p,
                                  !.ret_ptr = ptr, !.ret_size = size]
  /\ trace = <<>>
  /\ history = <<>>
  /\ exports = GuestExports
  /\ budget = 0

NextPack ==
  \/ GuestReturn
  \/ HostUnpack

SpecPack == InitPack /\ [][NextPack]_vars

----------------------------------------------------------------------------
(* One operation with arguments of any length, in a build with or without    *)
(* debug assertions, on a fresh or a configured instance.                   *)

InitLong ==
  /\ \/ cfg = NoCfg /\ history = <<>>
     \/ \E path \in Val :
          /\ cfg = [set |-> TRUE, path |-> path]
          /\ history = <<[kind |-> "setup", proc |-> 0, ok |-> TRUE, phase |-> "return", err |-> <<>>,
                          cfg0 |-> NoCfg, cfg1 |-> [set |-> TRUE, path |-> path]]>>
  /\ heap = {}
  /\ freed = {}
  /\ mem = [i \in 0..(MemSize - 1) |-> Junk]
  /\ \E debug \in BOOLEAN : h = [IdleHost EXCEPT !.debug = debug]
  /\ g = IdleGuest
  /\ trace = <<>>
  /\ exports = GuestExports
  /\ budget = 1

NextLong ==
  \/ \E p \in CalledProcs : \E a \in [1..NArgs(p) -> Val \cup Huge] : HostCall(p, a)
  \/ HostSize
  \/ HostAllocate
  \/ HostCheckArg
  \/ HostSerialize
  \/ HostWrite
  \/ HostInvoke
  \/ HostUnpack
  \/ HostCheckRes
  \/ HostRead
  \/ HostDealloc
  \/ HostDecode
  \/ GuestRead
  \/ GuestDealloc
  \/ GuestCall
  \/ GuestAlloc
  \/ GuestWrite
  \/ GuestReturn
  \/ \E path \in Paths \cup Huge : HostSetup(path)
  \/ SetupResolve
  \/ SetupSize
  \/ SetupAllocate
  \/ SetupCheckArg
  \/ SetupSerialize
  \/ SetupWrite
  \/ SetupInvoke
  \/ SetupReturned
  \/ GuestSetupRead
  \/ GuestSetupDealloc
  \/ GuestSetupRun

SpecLong == InitLong /\ [][NextLong]_vars

----------------------------------------------------------------------------
(* One operation, setup or a call, on an instance with or without a          *)
(* configuration, run to its end: the generated code is straight-line and   *)
(* synchronous, so a step that can be taken is taken.                       *)

InitLive ==
  /\ \/ cfg = NoCfg /\ history = <<>>
     \/ \E path \in Val :
          /\ cfg = [set |-> TRUE, path |-> path]
          /\ history = <<[kind |-> "setup", proc |-> 0, ok |-> TRUE, phase |-> "return", err |-> <<>>,
                          cfg0 |-> NoCfg, cfg1 |-> [set |-> TRUE, path |-> path]]>>
  /\ heap = {}
  /\ freed = {}
  /\ mem = [i \in 0..(MemSize - 1) |-> Junk]
  /\ h = IdleHost
  /\ g = IdleGuest
  /\ trace = <<>>
  /\ exports = GuestExports
  /\ budget = 1

SpecLive == InitLive /\ [][Next]_vars /\ WF_vars(Next)

----------------------------------------------------------------------------
(* The construction of the host client (build), against an instance some of  *)
(* whose exports are missing or of another type.                            *)

(* the build that hands over the callables it has when an export fails *)
BuildFailPartial(op) ==
  /\ h' = [h EXCEPT !.pc = "idle", !.res = h.args]
  /\ trace' = Append(trace, Step("host", op, FALSE))
  /\ history' = Append(history, Outcome("build", h.proc, FALSE, op, cfg))

(* `?` in build: the error is returned and the closures made so far are      *)
(* dropped with the frame                                                   *)
BuildFail(op) ==
  /\ h' = [h EXCEPT !.pc = "idle", !.args = <<>>]
  /\ trace' = Append(trace, Step("host", op, FALSE))
  /\ history' = Append(history, Outcome("build", h.proc, FALSE, op, cfg))

HostBuild ==
  /\ h.pc = "idle"
  /\ budget > 0
  /\ budget' = budget - 1
  /\ h' = [IdleHost EXCEPT !.pc = "memory", !.kind = "build", !.cfg0 = cfg,
                           !.res = <<>>, !.debug = h.debug]
  /\ g' = IdleGuest
  /\ trace' = <<>>
  /\ freed' = {}
  /\ UNCHANGED <<cfg, heap, mem, history, exports>>

(* let memory = instance.get_memory("memory").ok_or_else(..)? *)
BuildMemory ==
  /\ h.pc = "memory" /\ h.kind = "build"
  /\ IF GetMemory("memory")
     THEN /\ h' = [h EXCEPT !.pc = "func", !.proc = 1]
          /\ trace' = Append(trace, Step("host", "memory", TRUE))
          /\ UNCHANGED history
     ELSE BuildFail("memory")
  /\ UNCHANGED <<cfg, heap, freed, mem, g, exports, budget>>

(* #(#func_gets)*: for each procedure in turn, get_func, get2 and the        *)
(* closure; h.args holds the closures made so far                           *)
BuildFunc ==
  /\ h.pc = "func" /\ h.kind = "build"
  /\ LET name == SERVER_CONFIG[h.proc].ffi_name
     IN IF ~GetFunc(name) THEN BuildFail("get_func")
        ELSE IF ~Get2(name, EntryTy) THEN BuildFail("get2")
        ELSE /\ h' = [h EXCEPT !.args = Append(h.args, h.proc),
                               !.proc = IF h.proc = Len(SERVER_CONFIG) THEN h.proc
                                        ELSE h.proc + 1,
                               !.pc = IF h.proc = Len(SERVER_CONFIG) THEN "done" ELSE "func"]
             /\ trace' = Append(trace, Ev("host", "func", h.proc, 0, TRUE))
             /\ UNCHANGED history
  /\ UNCHANGED <<cfg, heap, freed, mem, g, exports, budget>>

(* Ok(Self { #(#func_names),* }) *)
BuildDone ==
  /\ h.pc = "done" /\ h.kind = "build"
  /\ h' = [h EXCEPT !.pc = "idle", !.res = h.args]
  /\ trace' = Append(trace, Step("host", "return", TRUE))
  /\ history' = Append(history, Outcome("build", 0, TRUE, "return", cfg))
  /\ UNCHANGED <<cfg, heap, freed, mem, g, exports, budget>>

(* the names build resolves *)
BuildNames == {"memory"} \cup {SERVER_CONFIG[p].ffi_name : p \in Procs}

(* the exports of a module with the names of B missing or of another type *)
BrokenExports(B, how) ==
  {e \in GuestExports : e[1] \notin B} \cup
  {Export(n, "other") : n \in {m \in B : how[m] = "mistyped"}}

InitBuild ==
  /\ cfg = NoCfg
  /\ heap = {}
  /\ freed = {}
  /\ mem = [i \in 0..(MemSize - 1) |-> Junk]
  /\ h = IdleHost
  /\ g = IdleGuest
  /\ trace = <<>>
  /\ history = <<>>
  /\ \E B \in {X \in SUBSET BuildNames : Cardinality(X) <= MaxBroken} :
       \E how \in [B -> {"missing", "mistyped"}] : exports = BrokenExports(B, how)
  /\ budget = 1

NextBuild ==
  \/ HostBuild
  \/ BuildMemory
  \/ BuildFunc
  \/ BuildDone

SpecBuild == InitBuild /\ [][NextBuild]_vars

----------------------------------------------------------------------------
(* The host setup against an instance whose memory or setup export may be    *)
(* missing or of another type.                                              *)

SetupNames == {"memory", "setup"}

InitSetup ==
  /\ \/ cfg = NoCfg /\ history = <<>>
     \/ \E path \in Val :
          /\ cfg = [set |-> TRUE, path |-> path]
          /\ history = <<[kind |-> "setup", proc |-> 0, ok |-> TRUE, phase |-> "return", err |-> <<>>,
                          cfg0 |-> NoCfg, cfg1 |-> [set |-> TRUE, path |-> path]]>>
  /\ heap = {}
  /\ freed = {}
  /\ mem = [i \in 0..(MemSize - 1) |-> Junk]
  /\ h = IdleHost
  /\ g = IdleGuest
  /\ trace = <<>>
  /\ \E B \in {X \in SUBSET SetupNames : Cardinality(X) <= MaxBroken} :
       \E how \in [B -> {"missing", "mistyped"}] : exports = BrokenExports(B, how)
  /\ budget = 1

NextSetup ==
  \/ \E path \in Paths : HostSetup(path)
  \/ SetupResolve
  \/ SetupSize
  \/ SetupAllocate
  \/ SetupCheckArg
  \/ SetupSerialize
  \/ SetupWrite
  \/ SetupInvoke
  \/ SetupReturned
  \/ GuestSetupRead
  \/ GuestSetupDealloc
  \/ GuestSetupRun

SpecSetup == InitSetup /\ [][NextSetup]_vars

----------------------------------------------------------------------------
(* The default bodies of the registry (the terminator of a procedure, which *)
(* make_trait puts in the trait as the body of the method) for can_do_tls   *)
(* and handle_starttls, called on a policy object that overrides            *)
(* can_do_tls or not.                                                       *)

(* Option<T> as a sequence of at most one value *)
None == <<>>
Some(x) == <<x>>

(* opt.map(f).unwrap_or(d), f given as a function *)
MapUnwrapOr(opt, f, d) == IF opt = None THEN d ELSE f[opt[1]]

HelloInfos == [is_ehlo : BOOLEAN]

(* the fields of ConnectionMetadata the default bodies read *)
ConnMetas == [is_encrypted : BOOLEAN, hello : {None} \cup {Some(x) : x \in HelloInfos}]

(* the policy objects: one that keeps the default can_do_tls, and those     *)
(* that override it with any function of the connection metadata            *)
TlsImpls ==
  {[overrides |-> FALSE, can_do_tls |-> [m \in ConnMetas |-> FALSE]]} \cup
  {[overrides |-> TRUE, can_do_tls |-> f] : f \in [ConnMetas -> BOOLEAN]}

(* a default that takes a connection without hello for one that did EHLO *)
CanDoTlsDefaultNoHello(conn_meta) ==
  /\ ~conn_meta.is_encrypted
  /\ MapUnwrapOr(conn_meta.hello, [x \in HelloInfos |-> x.is_ehlo], TRUE)

(* !conn_meta.is_encrypted &&                                               *)
(*     conn_meta.hello.as_ref().map(|h| h.is_ehlo).unwrap_or(false)         *)
CanDoTlsDefault(conn_meta) ==
  /\ ~conn_meta.is_encrypted
  /\ MapUnwrapOr(conn_meta.hello, [x \in HelloInfos |-> x.is_ehlo], FALSE)

(* Self::can_do_tls: the method of the policy object, the default body when *)
(* the object does not define it                                            *)
SelfCanDoTls(impl, conn_meta) ==
  IF impl.overrides THEN impl.can_do_tls[conn_meta] ELSE CanDoTlsDefault(conn_meta)

(* the default body of handle_starttls *)
HandleStarttlsDefault(impl, conn_meta) ==
  IF SelfCanDoTls(impl, conn_meta)
  THEN [decision |-> "Accept", reply |-> "okay_starttls"]
  ELSE [decision |-> "Reject", reply |-> "command_not_supported"]

TlsCall(op, conn_meta, res) == [op |-> op, conn_meta |-> conn_meta, res |-> res]

InitTls ==
  /\ cfg \in TlsImpls
  /\ heap = {}
  /\ freed = {}
  /\ mem = <<>>
  /\ h = IdleHost
  /\ g = IdleGuest
  /\ trace = <<>>
  /\ history = <<>>
  /\ exports = {}
  /\ budget = MaxCalls

CallCanDoTls ==
  /\ budget > 0
  /\ budget' = budget - 1
  /\ \E conn_meta \in ConnMetas :
       trace' = Append(trace, TlsCall("can_do_tls", conn_meta, SelfCanDoTls(cfg, conn_meta)))
  /\ UNCHANGED <<cfg, heap, freed, mem, h, g, history, exports>>

CallHandleStarttls ==
  /\ budget > 0
  /\ budget' = budget - 1
  /\ \E conn_meta \in ConnMetas :
       trace' = Append(trace, TlsCall("handle_starttls", conn_meta,
                                      HandleStarttlsDefault(cfg, conn_meta)))
  /\ UNCHANGED <<cfg, heap, freed, mem, h, g, history, exports>>

NextTls == CallCanDoTls \/ CallHandleStarttls

SpecTls == InitTls /\ [][NextTls]_vars

----------------------------------------------------------------------------
(* smtp-message: the regexes, the regex driver and the parsers.              *)
(*                                                                          *)
(* A buffer is a sequence of bytes, and a byte is written as the class it   *)
(* falls in for the four regexes: "I", "P", "v" (these letters), "f" (a     *)
(* hexadecimal letter), "a" (another letter), "6" (this digit), "1"         *)
(* (another digit), the ASCII punctuation that the regexes or the parsers   *)
(* name, "+" (another character of the dot-string class), " " (another      *)
(* printable ASCII character), "C3" and "A9" (the two bytes of a non-ASCII  *)
(* character), "FF" (a byte of no UTF-8 text).                              *)

Alnum == {"a", "f", "I", "P", "v", "6", "1"}
Xdigit == {"f", "6", "1"}
Digit == {"6", "1"}

(* [a-zA-Z0-9!#$%&'*+/=?^_`{|}~-] *)
Atext == Alnum \cup {"+", "-"}

(* [a-zA-Z0-9!#$%&'*+-/=?^_`{|}~]: "+-/" is the range from + to /, which    *)
(* holds the comma, the hyphen and the dot                                  *)
AtextRange == Alnum \cup {"+", ",", "-", "."}

(* printable ASCII *)
AsciiPrint ==
  Alnum \cup {"+", ",", "-", ".", ":", "[", "]", ">", "@", "\"", "\\", " "}

(* [[:ascii:]&&[^\\"[:cntrl:]]] *)
Qtext == AsciiPrint \ {"\"", "\\"}

(* A regex as the automaton of its positions: each position is an atom of   *)
(* the regex text with the bytes it takes, position 0 is the start, follow  *)
(* gives the positions that may come next, accept the positions that may    *)
(* end a match. All the quantifiers are greedy and the branches of each     *)
(* alternation differ in their first bytes, so the leftmost-first match of  *)
(* the compiled DFA is the run over the sets of positions.                  *)

(* \[IPv6: [:.[:xdigit:]]+ \] | \[ [.0-9]+ \] |                             *)
(* [[:alnum:]] ([-[:alnum:]]* [[:alnum:]])?                                 *)
(*     ( \. [[:alnum:]] ([-[:alnum:]]* [[:alnum:]])? )*                     *)
HOSTNAME_ASCII ==
  [class |-> <<{"["}, {"I"}, {"P"}, {"v"}, {"6"}, {":"}, {":", "."} \cup Xdigit, {"]"},
               {"["}, {"."} \cup Digit, {"]"},
               Alnum, {"-"} \cup Alnum, Alnum,
               {"."}, Alnum, {"-"} \cup Alnum, Alnum>>,
   first |-> {1, 9, 12},
   follow |-> <<{2}, {3}, {4}, {5}, {6}, {7}, {7, 8}, {},
                {10}, {10, 11}, {},
                {13, 14, 15}, {13, 14}, {15},
                {16}, {15, 17, 18}, {17, 18}, {15}>>,
   accept |-> {8, 11, 12, 14, 16, 18}]

(* ([-.[:alnum:]]|[[:^ascii:]])+ *)
HOSTNAME_UTF8 ==
  [class |-> <<{"-", "."} \cup Alnum, {"C3"}, {"A9"}>>,
   first |-> {1, 2},
   follow |-> <<{1, 2}, {3}, {1, 2}>>,
   accept |-> {1, 3}]

(* " ( [[:ascii:]&&[^\\"[:cntrl:]]] | \\ [[:ascii:]&&[:^cntrl:]] )* " |     *)
(* [a-zA-Z0-9!#$%&'*+-/=?^_`{|}~]+ ( \. [a-zA-Z0-9!#$%&'*+/=?^_`{|}~-]+ )*  *)
LOCALPART_ASCII ==
  [class |-> <<{"\""}, Qtext, {"\\"}, AsciiPrint, {"\""},
               AtextRange, {"."}, Atext>>,
   first |-> {1, 6},
   follow |-> <<{2, 3, 5}, {2, 3, 5}, {4}, {2, 3, 5}, {},
                {6, 7}, {8}, {7, 8}>>,
   accept |-> {5, 6, 8}]

(* " ( [^\\"[:cntrl:]] | \\ [[:^cntrl:]] )* " |                             *)
(* ( [a-zA-Z0-9!#$%&'*+-/=?^_`{|}~] | [[:^ascii:]] )+                       *)
(*     ( \. ( [a-zA-Z0-9!#$%&'*+-/=?^_`{|}~] | [[:^ascii:]] )+ )*           *)
LOCALPART_UTF8 ==
  [class |-> <<{"\""}, Qtext, {"C3"}, {"A9"}, {"\\"}, AsciiPrint, {"C3"}, {"A9"}, {"\""},
               AtextRange, {"C3"}, {"A9"}, {"."}, AtextRange, {"C3"}, {"A9"}>>,
   first |-> {1, 10, 11},
   follow |-> <<{2, 3, 5, 9}, {2, 3, 5, 9}, {4}, {2, 3, 5, 9},
                {6, 7}, {2, 3, 5, 9}, {8}, {2, 3, 5, 9}, {},
                {10, 11, 13}, {12}, {10, 11, 13},
                {14, 15}, {13, 14, 15}, {16}, {13, 14, 15}>>,
   accept |-> {9, 10, 12, 14, 16}]

Regexes ==
  [HOSTNAME_ASCII |-> HOSTNAME_ASCII, HOSTNAME_UTF8 |-> HOSTNAME_UTF8,
   LOCALPART_ASCII |-> LOCALPART_ASCII, LOCALPART_UTF8 |-> LOCALPART_UTF8]

(* The forward DFA of an anchored regex: a state is the set of positions    *)
(* the bytes read so far can end in.                                        *)

(* dfa.start_state() *)
StartState == {0}

(* dfa.next_state_unchecked(state, b) *)
NextState(dfa, state, b) ==
  LET next == IF state = StartState THEN dfa.first
              ELSE UNION {dfa.follow[q] : q \in state}
  IN {q \in next : b \in dfa.class[q]}

(* the dead state: no byte leads to a match from it *)
IsDeadState(dfa, state) == state = {}

IsMatchState(dfa, state) == state \cap dfa.accept # {}

IsMatchOrDeadState(dfa, state) == IsMatchState(dfa, state) \/ IsDeadState(dfa, state)

(* Result<usize, D::ID> *)
Ok(x) == [ok |-> TRUE, val |-> x]
Err(x) == [ok |-> FALSE, val |-> x]

(* last_match.ok_or(state) *)
OkOr(opt, e) == IF opt = None THEN Err(e) ELSE Ok(opt[1])

(* a loop that stops at the first match state *)
RECURSIVE FindDfaLoopFirst(_, _, _, _, _)
FindDfaLoopFirst(dfa, buf, i, state, last_match) ==
  IF i = Len(buf) \/ last_match # None THEN OkOr(last_match, state)
  ELSE LET b == buf[i + 1]
           next == NextState(dfa, state, b)
       IN IF IsMatchOrDeadState(dfa, next)
          THEN IF IsDeadState(dfa, next) THEN OkOr(last_match, next)
               ELSE FindDfaLoopFirst(dfa, buf, i + 1, next, Some(i + 1))
          ELSE FindDfaLoopFirst(dfa, buf, i + 1, next, last_match)

(* for (i, &b) in buf.iter().enumerate() { .. } last_match.ok_or(state) *)
RECURSIVE FindDfaLoop(_, _, _, _, _)
FindDfaLoop(dfa, buf, i, state, last_match) ==
  IF i = Len(buf) THEN OkOr(last_match, state)
  ELSE LET b == buf[i + 1]
           next == NextState(dfa, state, b)
       IN IF IsMatchOrDeadState(dfa, next)
          THEN IF IsDeadState(dfa, next) THEN OkOr(last_match, next)
               ELSE FindDfaLoop(dfa, buf, i + 1, next, Some(i + 1))
          ELSE FindDfaLoop(dfa, buf, i + 1, next, last_match)

find_dfa(dfa, buf) ==
  LET state == StartState
  IN IF IsDeadState(dfa, state) THEN Err(state)
     ELSE FindDfaLoop(dfa, buf, 0, state,
                      IF IsMatchState(dfa, state) THEN Some(0) ELSE None)

(* IResult: Ok((rest, out)), Err(Error((buf, kind))) or Err(Incomplete) *)
Done(rest, out) == [kind |-> "Ok", rest |-> rest, out |-> out]
Error(buf, code) == [kind |-> "Error", rest |-> buf, out |-> code]
Incomplete == [kind |-> "Incomplete", rest |-> <<>>, out |-> "Unknown"]

Drop(buf, n) == SubSeq(buf, n + 1, Len(buf))
Take(buf, n) == SubSeq(buf, 1, n)

apply_regex(regex, buf) ==
  LET dfa_result == find_dfa(regex, buf)
  IN IF dfa_result.ok THEN Done(Drop(buf, dfa_result.val), Take(buf, dfa_result.val))
     ELSE IF IsDeadState(regex, dfa_result.val) THEN Error(buf, "Verify")
     ELSE Incomplete

(* The buffers the regexes are applied to: every buffer of up to MaxBuf     *)
(* bytes of the classes the hostname regexes tell apart, and the (prefixes  *)
(* of the) buffers of the tests.                                            *)

Strings(S, n) == UNION {[1..k -> S] : k \in 0..n}

Prefixes(w) == {Take(w, k) : k \in 0..Len(w)}

HostBytes == {"a", "1", "-", ".", "[", "]", ">"}

(* "foo--bar", "1.2.3.4", "[123.255.37.2]", "[IPv6:0::ffff:8.7.6.5]",       *)
(* "élégance.fr", "foo.bar.-baz", "papier-maché.fr>", "[1.2", "[IPv6:0::", *)
(* "-foo.bar", "\xFF", "élégance.-fr", with runs of letters and of digits   *)
(* cut to one or two bytes                                                  *)
HostnameTests ==
  {<<"f", "a", "-", "-", "f", "a">>,
   <<"1", ".", "1", ".", "1", ".", "1">>,
   <<"[", "1", "1", ".", "1", ".", "1", ".", "1", "]">>,
   <<"[", "I", "P", "v", "6", ":", "1", ":", ":", "f", "f", ":", "1", ".", "6", "]">>,
   <<"C3", "A9", "a", "C3", "A9", ".", "f", "a">>,
   <<"f", "a", ".", "f", "a", ".", "-", "f", "a">>,
   <<"a", "-", "a", "C3", "A9", ".", "f", "a", ">">>,
   <<"[", "1", ".", "1">>,
   <<"[", "I", "P", "v", "6", ":", "1", ":", ":">>,
   <<"-", "f", "a", ".", "f">>,
   <<"FF">>,
   <<"C3", "A9", "a", ".", "-", "f", "a">>}

HostnameInputs == Strings(HostBytes, MaxBuf) \cup UNION {Prefixes(w) : w \in HostnameTests}

(* apply_regex(&REGEX)(buf), for each of the four regexes *)
InitRegex ==
  /\ cfg \in DOMAIN Regexes
  /\ mem \in HostnameInputs
  /\ heap = {}
  /\ freed = {}
  /\ h = IdleHost
  /\ g = IdleGuest
  /\ trace = <<>>
  /\ history = <<>>
  /\ exports = {}
  /\ budget = 1

ApplyRegex ==
  /\ budget > 0
  /\ budget' = budget - 1
  /\ trace' = Append(trace, apply_regex(Regexes[cfg], mem))
  /\ UNCHANGED <<cfg, heap, freed, mem, h, g, history, exports>>

NextRegex == ApplyRegex

SpecRegex == InitRegex /\ [][NextRegex]_vars

----------------------------------------------------------------------------
(* The nom combinators the parsers are made of (streaming), on results      *)

(* tag(t)(buf): the bytes of t, Incomplete when the buffer ends inside t *)
tag(t, buf) ==
  IF \E i \in 1..Len(t) : i <= Len(buf) /\ buf[i] # t[i] THEN Error(buf, "Tag")
  ELSE IF Len(buf) >= Len(t) THEN Done(Drop(buf, Len(t)), t)
  ELSE Incomplete

(* peek(p)(buf), given the result of p on buf: nothing is consumed *)
peek(r, buf) == IF r.kind = "Ok" THEN Done(buf, r.out) ELSE r

maybe_terminator(terminator, buf) ==
  IF terminator = <<>> THEN Done(buf, <<>>)
  ELSE LET r == peek(tag(terminator, buf), buf)
       IN IF r.kind = "Ok" THEN Done(r.rest, <<>>) ELSE r

(* the second half of terminated(p, q): t is the result of q, out the       *)
(* output of p                                                              *)
TerminatedBy(t, out) == IF t.kind # "Ok" THEN t ELSE Done(t.rest, out)

(* terminated(p, maybe_terminator(term))(buf), given the result r of p *)
terminated(r, term) ==
  IF r.kind # "Ok" THEN r ELSE TerminatedBy(maybe_terminator(term, r.rest), r.out)

(* terminated(apply_regex(regex), maybe_terminator(term))(buf) *)
RegexTerminated(regex, term, buf) == terminated(apply_regex(regex, buf), term)

(* map_opt(p, f)(buf), given the result of p and f of its output *)
map_opt(r, opt, buf) ==
  IF r.kind # "Ok" THEN r
  ELSE IF opt = None THEN Error(buf, "MapOpt")
  ELSE Done(r.rest, opt[1])

(* alt((p, q))(buf), given the results: q is tried on an Error of p only *)
alt(r1, r2) == IF r1.kind = "Error" THEN r2 ELSE r1

(* the pieces of w between the bytes sep *)
RECURSIVE Split(_, _)
Split(w, sep) ==
  IF \A i \in 1..Len(w) : w[i] # sep THEN <<w>>
  ELSE LET i == CHOOSE i \in 1..Len(w) : w[i] = sep /\ \A j \in 1..(i - 1) : w[j] # sep
       IN <<Take(w, i - 1)>> \o Split(Drop(w, i), sep)

(* ip.parse::<Ipv4Addr>(): four groups of one to three digits; whether the  *)
(* digits behind the classes are numbers of an address is the library's     *)
(* answer, accepts                                                          *)
ParseIpv4(text, accepts) ==
  LET groups == Split(text, ".")
  IN IF /\ Len(groups) = 4
        /\ \A k \in 1..4 : Len(groups[k]) \in 1..3
        /\ accepts
     THEN Some(text) ELSE None

(* ip.parse::<Ipv6Addr>() *)
ParseIpv6(text, accepts) ==
  IF Len(text) >= 2 /\ (\E i \in 1..Len(text) : text[i] = ":") /\ accepts
  THEN Some(text) ELSE None

(* the punycode of a label: the ASCII of the label after "xn--", then the   *)
(* code of what was left out                                                *)
PunycodeLabel(label) ==
  IF \A i \in 1..Len(label) : label[i] \notin {"C3", "A9"} THEN label
  ELSE <<"x", "n", "-", "-">> \o SelectSeq(label, LAMBDA b : b \notin {"C3", "A9"})
       \o <<"-">> \o [i \in 1..Len(SelectSeq(label, LAMBDA b : b = "C3")) |-> "a"]

RECURSIVE JoinDots(_)
JoinDots(labels) ==
  IF Len(labels) = 1 THEN labels[1]
  ELSE labels[1] \o <<".">> \o JoinDots(Tail(labels))

(* idna::Config::default().use_std3_ascii_rules(true)                       *)
(*     .verify_dns_length(true).check_hyphens(true).to_ascii(raw).ok():     *)
(* no empty label but a last one, no label that begins or ends with a       *)
(* hyphen or has hyphens third and fourth; whether the characters behind    *)
(* the classes are allowed is the library's answer, accepts                 *)
IdnaToAscii(raw, accepts) ==
  LET all == Split(raw, ".")
      labels == IF Len(all) > 1 /\ all[Len(all)] = <<>> THEN Take(all, Len(all) - 1) ELSE all
  IN IF /\ \A k \in 1..Len(labels) :
             /\ labels[k] # <<>>
             /\ labels[k][1] # "-"
             /\ labels[k][Len(labels[k])] # "-"
             /\ ~(Len(labels[k]) >= 4 /\ labels[k][3] = "-" /\ labels[k][4] = "-")
        /\ accepts
     THEN Some(JoinDots([k \in 1..Len(all) |-> PunycodeLabel(all[k])]))
     ELSE None

(* the closure of the first branch of Hostname::parse_terminated *)
AsciiHostname(b, accepts) ==
  IF b[1] # "["
  THEN Some([variant |-> "AsciiDomain", raw |-> b, extra |-> <<>>])
  ELSE IF b[2] = "I"
  THEN LET ip == ParseIpv6(SubSeq(b, 7, Len(b) - 1), accepts)
       IN IF ip = None THEN None
          ELSE Some([variant |-> "Ipv6", raw |-> b, extra |-> ip[1]])
  ELSE LET ip == ParseIpv4(SubSeq(b, 2, Len(b) - 1), accepts)
       IN IF ip = None THEN None
          ELSE Some([variant |-> "Ipv4", raw |-> b, extra |-> ip[1]])

(* the closure of the second branch *)
Utf8Hostname(res, accepts) ==
  LET punycode == IdnaToAscii(res, accepts)
  IN IF punycode = None THEN None
     ELSE Some([variant |-> "Utf8Domain", raw |-> res, extra |-> punycode[1]])

(* the alt of Hostname::parse_terminated, given the results a and u of the  *)
(* two terminated regexes                                                   *)
HostnameAlt(a, u, buf, accepts) ==
  alt(map_opt(a, IF a.kind = "Ok" THEN AsciiHostname(a.out, accepts) ELSE None, buf),
      map_opt(u, IF u.kind = "Ok" THEN Utf8Hostname(u.out, accepts) ELSE None, buf))

(* Hostname::parse_terminated(term)(buf) *)
HostnameParseTerminated(term, buf, accepts) ==
  HostnameAlt(RegexTerminated(HOSTNAME_ASCII, term, buf),
              RegexTerminated(HOSTNAME_UTF8, term, buf), buf, accepts)

(* Hostname::parse(buf) *)
HostnameParse(buf, accepts) == HostnameParseTerminated(<<>>, buf, accepts)

Terminators == {<<>>, <<">">>}

InitHostname ==
  /\ cfg \in [term : Terminators, accepts : BOOLEAN]
  /\ mem \in HostnameInputs
  /\ heap = {}
  /\ freed = {}
  /\ h = IdleHost
  /\ g = IdleGuest
  /\ trace = <<>>
  /\ history = <<>>
  /\ exports = {}
  /\ budget = 1

ParseHostname ==
  /\ budget > 0
  /\ budget' = budget - 1
  /\ trace' = Append(trace, HostnameParseTerminated(cfg.term, mem, cfg.accepts))
  /\ UNCHANGED <<cfg, heap, freed, mem, h, g, history, exports>>

NextHostname == ParseHostname

SpecHostname == InitHostname /\ [][NextHostname]_vars

----------------------------------------------------------------------------
(* Localpart, Email, Path and email_in_path                                 *)

(* map(p, f)(buf), given the result of p and f of its output *)
map(r, v) == IF r.kind # "Ok" THEN r ELSE Done(r.rest, v)

(* opt(p)(buf), given the result of p: an Error becomes None *)
opt(r, buf) ==
  IF r.kind = "Error" THEN Done(buf, None)
  ELSE IF r.kind = "Ok" THEN Done(r.rest, Some(r.out))
  ELSE r

(* the closure of a branch of Localpart::parse_terminated *)
LocalpartOf(b, plain, quoted) ==
  IF b[1] # "\"" THEN [variant |-> plain, raw |-> b]
  ELSE [variant |-> quoted, raw |-> b]

(* the alt of Localpart::parse_terminated, given the results a and u of the *)
(* two terminated regexes                                                   *)
LocalpartAlt(a, u) ==
  alt(map(a, IF a.kind = "Ok" THEN LocalpartOf(a.out, "Ascii", "Quoted") ELSE None),
      map(u, IF u.kind = "Ok" THEN LocalpartOf(u.out, "Utf8", "QuotedUtf8") ELSE None))

(* Localpart::parse_terminated(term)(buf) *)
LocalpartParseTerminated(term, buf) ==
  LocalpartAlt(RegexTerminated(LOCALPART_ASCII, term, buf),
               RegexTerminated(LOCALPART_UTF8, term, buf))

(* Localpart::parse(buf) *)
LocalpartParse(buf) == LocalpartParseTerminated(<<>>, buf)

(* the second half of preceded(tag(b"@"), ..): t is the result of the tag *)
AfterAt(t, term, accepts) ==
  IF t.kind # "Ok" THEN t ELSE HostnameParseTerminated(term, t.rest, accepts)

(* preceded(tag(b"@"), Hostname::parse_terminated(term))(buf) *)
AtHostname(term, buf, accepts) == AfterAt(tag(<<"@">>, buf), term, accepts)

(* the closure of Email::parse_terminated on the pair (localpart, hostname) *)
EmailOf(localpart, hn) ==
  map(hn, IF hn.kind = "Ok" THEN [localpart |-> localpart, hostname |-> hn.out] ELSE None)

(* the pair of Email::parse_terminated, given the result l of the localpart *)
EmailPair(l, term, accepts) ==
  IF l.kind # "Ok" THEN l
  ELSE EmailOf(l.out, opt(AtHostname(term, l.rest, accepts), l.rest))

(* Email::parse_terminated(term, term_with_atsign)(buf) *)
EmailParseTerminated(term, term_with_atsign, buf, accepts) ==
  EmailPair(LocalpartParseTerminated(term_with_atsign, buf), term, accepts)

(* Email::parse(buf) *)
EmailParse(buf, accepts) == EmailParseTerminated(<<>>, <<>>, buf, accepts)

RECURSIVE SeparatedLoop(_, _, _, _)

(* separated_nonempty_list after a separator: e is the result of the        *)
(* element behind it, i the input before the separator                      *)
SeparatedElem(e, term, i, res, accepts) ==
  IF e.kind = "Error" THEN Done(i, res)
  ELSE IF e.kind # "Ok" THEN e
  ELSE IF e.rest = i THEN Error(e.rest, "SeparatedList")
  ELSE SeparatedLoop(term, e.rest, Append(res, e.out), accepts)

(* separated_nonempty_list at a separator: sep is the result of tag(b",")   *)
SeparatedSep(sep, term, i, res, accepts) ==
  IF sep.kind = "Error" THEN Done(i, res)
  ELSE IF sep.kind # "Ok" THEN sep
  ELSE SeparatedElem(AtHostname(term, sep.rest, accepts), term, i, res, accepts)

(* the loop of separated_nonempty_list(tag(b","), preceded(..)): i is the   *)
(* input left after the elements res                                        *)
SeparatedLoop(term, i, res, accepts) ==
  SeparatedSep(tag(<<",">>, i), term, i, res, accepts)

(* separated_nonempty_list, given the result e of the first element *)
SeparatedFirst(e, term, buf, accepts) ==
  IF e.kind # "Ok" THEN e
  ELSE IF e.rest = buf THEN Error(e.rest, "SeparatedList")
  ELSE SeparatedLoop(term, e.rest, <<e.out>>, accepts)

(* the closure of Path::parse_terminated on the list of domains *)
PathOf(domains) ==
  map(domains, IF domains.kind = "Ok" THEN [domains |-> domains.out] ELSE None)

(* Path::parse_terminated(term_with_comma)(buf) *)
PathParseTerminated(term_with_comma, buf, accepts) ==
  PathOf(SeparatedFirst(AtHostname(term_with_comma, buf, accepts),
                        term_with_comma, buf, accepts))

(* Path::parse(buf) *)
PathParse(buf, accepts) == PathParseTerminated(<<>>, buf, accepts)

(* terminated(Path::parse, tag(b":")), given the result p of Path::parse *)
PathColon(p) ==
  IF p.kind # "Ok" THEN p ELSE TerminatedBy(tag(<<":">>, p.rest), p.out)

(* the output pair of email_in_path *)
PairOf(path, email) ==
  map(email, IF email.kind = "Ok" THEN [path |-> path, email |-> email.out] ELSE None)

(* the pair of email_in_path, given the result of the optional path *)
EmailInPathPair(path, accepts) ==
  IF path.kind # "Ok" THEN path
  ELSE PairOf(path.out, EmailParse(path.rest, accepts))

(* email_in_path(buf) *)
email_in_path(buf, accepts) ==
  EmailInPathPair(opt(PathColon(PathParse(buf, accepts)), buf), accepts)

EmailBytes == {"a", "@", ".", "-", ">", ",", ":"}

(* "t+e-s.t_i+n-g@foo.bar.baz", "\"quoted\\\"example\"@example.org",        *)
(* "postmaster>", "@foo.bar", "@foo.bar,@baz.quux:test@example.org",        *)
(* "foo.bar@baz.quux", with the runs of letters cut to one or two bytes,    *)
(* and the hostnames of the hostname tests behind a localpart and in a path *)
EmailTests ==
  {<<"a", "+", "a", "-", "a", ".", "a", "+", "a", "@", "f", "a", ".", "f", "a">>,
   <<"\"", "a", "\\", "\"", "a", "\"", "@", "f", "a", ".", "f", "a">>,
   <<"f", "a", ">">>,
   <<"@", "f", "a", ".", "f", "a">>,
   <<"@", "a", ".", "a", ",", "@", "f", ".", "f", ":", "a", "@", "f", "a">>,
   <<"f", "a", ".", "f", "a", "@", "a", ".", "a">>,
   <<"a", "@", "a", "-", "a", "C3", "A9", ".", "f", "a">>,
   <<"a", "@", "a", "-", "a", "C3", "A9", ".", "f", "a", ">">>,
   <<"a", "@", "C3", "A9", "a", ".", "f", "a">>,
   <<"a", "@", "f", "a", ".", "-", "f", "a">>,
   <<"a", "@", "[", "1", ".", "1", ".", "1", ".", "1", "]", ">">>,
   <<"@", "C3", "A9", "a", ".", "f", "a", ":", "a", "@", "a">>,
   <<"@", "a", "-", "a", "C3", "A9", ".", "f", "a", ":", "a", "@", "a">>,
   <<"@", "a", ":", "a", ">">>,
   <<"@", "a", ",", "@", "f", ":", "a", "@", "a", ">">>}

EmailInputs == Strings(EmailBytes, MaxBuf) \cup UNION {Prefixes(w) : w \in EmailTests}

InitEmail ==
  /\ cfg \in [accepts : BOOLEAN]
  /\ mem \in EmailInputs
  /\ heap = {}
  /\ freed = {}
  /\ h = IdleHost
  /\ g = IdleGuest
  /\ trace = <<>>
  /\ history = <<>>
  /\ exports = {}
  /\ budget = 1

ParseEmail ==
  /\ budget > 0
  /\ budget' = budget - 1
  /\ trace' = Append(trace, [op |-> "Email::parse", res |-> EmailParse(mem, cfg.accepts)])
  /\ UNCHANGED <<cfg, heap, freed, mem, h, g, history, exports>>

ParseEmailInPath ==
  /\ budget > 0
  /\ budget' = budget - 1
  /\ trace' = Append(trace, [op |-> "email_in_path", res |-> email_in_path(mem, cfg.accepts)])
  /\ UNCHANGED <<cfg, heap, freed, mem, h, g, history, exports>>

NextEmail ==
  \/ ParseEmail
  \/ ParseEmailInPath

SpecEmail == InitEmail /\ [][NextEmail]_vars

----------------------------------------------------------------------------
(* parse_helpers: the parsers of the named! macros and Email::localpart     *)

(* the length of the longest prefix of buf made of bytes of set *)
RECURSIVE Span(_, _)
Span(set, buf) ==
  IF buf = <<>> \/ buf[1] \notin set THEN 0 ELSE 1 + Span(set, Tail(buf))

(* is_a!(set)(buf): the bytes of set at the head of the buffer, an error    *)
(* when the first byte is not one of them                                   *)
is_a(set, buf) ==
  IF buf # <<>> /\ buf[1] \notin set THEN Error(buf, "IsA")
  ELSE Done(Drop(buf, Span(set, buf)), Take(buf, Span(set, buf)))

(* complete!(p)(buf), given the result of p: Incomplete becomes an error *)
complete(r, buf) == IF r.kind = "Incomplete" THEN Error(buf, "Complete") ELSE r

(* recognize!(p)(buf), given the result of p: the bytes p went over *)
recognize(r, buf) ==
  IF r.kind # "Ok" THEN r ELSE Done(r.rest, Take(buf, Len(buf) - Len(r.rest)))

RECURSIVE SeparatedListLoop(_, _, _, _)

(* separated_list! behind a separator: e is the result of the element on    *)
(* i2, input the buffer before the separator                                *)
SeparatedListElem(e, sep, set, whole, input, i2) ==
  IF e.kind = "Error" THEN Done(input, <<>>)
  ELSE IF e.kind # "Ok" THEN e
  ELSE IF Len(e.rest) = Len(i2) THEN Done(input, <<>>)
  ELSE SeparatedListLoop(sep, set, whole, e.rest)

(* separated_list! at a separator: s is the result of tag!(sep) on input *)
SeparatedListSep(s, sep, set, whole, input) ==
  IF s.kind = "Error" THEN Done(input, <<>>)
  ELSE IF s.kind # "Ok" THEN s
  ELSE IF Len(s.rest) = Len(input) THEN Done(input, <<>>)
  ELSE SeparatedListElem(IF whole THEN complete(is_a(set, s.rest), s.rest) ELSE is_a(set, s.rest),
                         sep, set, whole, input, s.rest)

(* the loop of separated_list!(tag!(sep), is_a!(set)) on what is left; with *)
(* whole, of separated_list_complete!                                       *)
SeparatedListLoop(sep, set, whole, input) ==
  SeparatedListSep(IF whole THEN complete(tag(sep, input), input) ELSE tag(sep, input),
                   sep, set, whole, input)

(* separated_list!, given the result e of the first element: no element is  *)
(* an empty list                                                            *)
SeparatedListFirst(e, sep, set, whole, buf) ==
  IF e.kind = "Error" THEN Done(buf, <<>>)
  ELSE IF e.kind # "Ok" THEN e
  ELSE IF Len(e.rest) = Len(buf) THEN Error(buf, "SeparatedList")
  ELSE SeparatedListLoop(sep, set, whole, e.rest)

(* recognize!(separated_list!(tag!(sep), is_a!(set)))(buf) *)
separated_list(sep, set, whole, buf) ==
  recognize(SeparatedListFirst(IF whole THEN complete(is_a(set, buf), buf) ELSE is_a(set, buf),
                               sep, set, whole, buf), buf)

(* dot_string(buf) *)
dot_string(buf) == separated_list(<<".">>, Atext, FALSE, buf)

(* what many0!(alt!(..)) of quoted_string leaves of input: the bytes of the *)
(* string are gone over one or, behind a backslash, two at a time           *)
RECURSIVE QuotedMany0(_)
QuotedMany0(input) ==
  IF input = <<>> THEN Incomplete
  ELSE IF input[1] = "\\"
  THEN IF Len(input) = 1 THEN Incomplete
       ELSE IF input[2] \in AsciiPrint THEN QuotedMany0(Drop(input, 2))
       ELSE Done(input, <<>>)
  ELSE IF input[1] \in Qtext THEN QuotedMany0(Tail(input))
  ELSE Done(input, <<>>)

(* the rest of quoted_string behind the opening quote: m is the result of   *)
(* many0!                                                                   *)
QuotedClose(m) == IF m.kind # "Ok" THEN m ELSE tag(<<"\"">>, m.rest)

(* the rest of quoted_string, given the result q of the opening tag *)
QuotedOpen(q) == IF q.kind # "Ok" THEN q ELSE QuotedClose(QuotedMany0(q.rest))

(* quoted_string(buf) *)
quoted_string(buf) == recognize(QuotedOpen(tag(<<"\"">>, buf)), buf)

(* alt!(p | q)(buf), given the results: q is tried on an error of p *)
alt2(r1, r2) == IF r1.kind = "Error" THEN r2 ELSE r1

(* localpart(buf) *)
localpart(buf) == alt2(quoted_string(buf), dot_string(buf))

(* take_until_and_consume!("]")(buf) *)
take_until_and_consume(b, buf) ==
  IF \A i \in 1..Len(buf) : buf[i] # b THEN Incomplete
  ELSE Done(Drop(buf, Span((AsciiPrint \cup {"C3", "A9", "FF"}) \ {b}, buf) + 1),
            Take(buf, Span((AsciiPrint \cup {"C3", "A9", "FF"}) \ {b}, buf)))

(* preceded!(tag!("["), take_until_and_consume!("]")), given the tag *)
BracketOpen(t) == IF t.kind # "Ok" THEN t ELSE take_until_and_consume("]", t.rest)

(* hostname(buf) *)
hostname(buf) ==
  alt2(recognize(BracketOpen(tag(<<"[">>, buf)), buf),
       separated_list(<<".">>, Alnum \cup {"-"}, TRUE, buf))

(* the steps of email's do_parse!: the localpart l, then the "@" a, then    *)
(* the hostname hn                                                          *)
EmailHost(hn, local) ==
  IF hn.kind # "Ok" THEN hn ELSE Done(hn.rest, [localpart |-> local, hostname |-> hn.out])

EmailAt(a, local) == IF a.kind # "Ok" THEN a ELSE EmailHost(hostname(a.rest), local)

EmailLocal(l) == IF l.kind # "Ok" THEN l ELSE EmailAt(tag(<<"@">>, l.rest), l.out)

(* email(buf) *)
email(buf) == EmailLocal(localpart(buf))

(* the scan of Email::localpart over the bytes behind the opening quote:    *)
(* backslash says that the state is Backslash                               *)
RECURSIVE Scan(_, _)
Scan(backslash, bytes) ==
  IF bytes = <<>> THEN <<>>
  ELSE IF backslash THEN <<bytes[1]>> \o Scan(FALSE, Tail(bytes))
  ELSE IF bytes[1] = "\\" THEN Scan(TRUE, Tail(bytes))
  ELSE <<bytes[1]>> \o Scan(FALSE, Tail(bytes))

Gives(v) == [kind |-> "returned", val |-> v]
Panics == [kind |-> "panic", val |-> <<>>]

(* res.pop().unwrap() and the assert_eq! on it *)
PopQuote(res) ==
  IF res = <<>> \/ res[Len(res)] # "\"" THEN Panics
  ELSE Gives(Take(res, Len(res) - 1))

(* Email::localpart(&self): indexing an empty slice panics *)
EmailLocalpart(self) ==
  IF self.localpart = <<>> THEN Panics
  ELSE IF self.localpart[1] # "\"" THEN Gives(self.localpart)
  ELSE PopQuote(Scan(FALSE, Tail(self.localpart)))

AddressBytes == {"a", "+", ".", "@", "\"", "\\"}

(* "t+e-s.t_i+n-g@foo.bar.baz", "\"quoted\\\"example\"@example.org",        *)
(* "\"escaped\\\\exa\\mple\"@example.org", "foo.bar@baz.quux", "helloooo@", *)
(* with the runs of letters cut to one or two bytes                         *)
AddressTests ==
  {<<"a", "+", "a", "-", "a", ".", "a", "+", "a", "@", "f", "a", ".", "f", "a">>,
   <<"\"", "a", "\\", "\"", "a", "\"", "@", "f", "a", ".", "f", "a">>,
   <<"\"", "a", "\\", "\\", "a", "\\", "a", "a", "\"", "@", "f", "a">>,
   <<"f", "a", ".", "f", "a", "@", "a", ".", "a">>,
   <<"a", "a", "@">>}

AddressInputs == Strings(AddressBytes, MaxBuf) \cup UNION {Prefixes(w) : w \in AddressTests}

InitAddress ==
  /\ cfg = NoCfg
  /\ mem \in AddressInputs
  /\ heap = {}
  /\ freed = {}
  /\ h = IdleHost
  /\ g = IdleGuest
  /\ trace = <<>>
  /\ history = <<>>
  /\ exports = {}
  /\ budget = 1

(* email(s), and on its result localpart(), as tests::nice_localpart does *)
NiceLocalpart ==
  /\ budget > 0
  /\ email(mem).kind = "Ok"
  /\ budget' = budget - 1
  /\ trace' = Append(trace, [email |-> email(mem).out,
                             nice |-> EmailLocalpart(email(mem).out)])
  /\ UNCHANGED <<cfg, heap, freed, mem, h, g, history, exports>>

NextAddress == NiceLocalpart

SpecAddress == InitAddress /\ [][NextAddress]_vars

----------------------------------------------------------------------------
(* noop: command_noop_args                                                  *)

(* eat_separator!(set)(buf) that eats nothing *)
EatSeparatorNone(set, buf) == Done(buf, <<>>)

(* eat_separator!(set)(buf): the bytes of set at the head of the buffer,    *)
(* none of them included                                                    *)
eat_separator(set, buf) == Done(Drop(buf, Span(set, buf)), Take(buf, Span(set, buf)))

(* eat_spaces(buf) *)
eat_spaces(buf) == eat_separator({" ", "TAB"}, buf)

(* the index before the first place of buf where sub begins, -1 when there  *)
(* is none                                                                  *)
find_substring(sub, buf) ==
  LET at == {i \in 0..(Len(buf) - Len(sub)) : SubSeq(buf, i + 1, i + Len(sub)) = sub}
  IN IF at = {} THEN -1 ELSE CHOOSE i \in at : \A j \in at : i <= j

(* take_until!(sub)(buf) *)
take_until(sub, buf) ==
  IF Len(sub) > Len(buf) THEN Incomplete
  ELSE IF find_substring(sub, buf) = -1 THEN Error(buf, "TakeUntil")
  ELSE Done(Drop(buf, find_substring(sub, buf)), Take(buf, find_substring(sub, buf)))

(* the steps of command_noop_args's do_parse!: the spaces e, then the       *)
(* string res, then the CRLF t                                              *)
NoopCrlf(t, res) == IF t.kind # "Ok" THEN t ELSE Done(t.rest, [string |-> res])

NoopString(res) ==
  IF res.kind # "Ok" THEN res ELSE NoopCrlf(tag(<<"CR", "LF">>, res.rest), res.out)

NoopSpaces(e) == IF e.kind # "Ok" THEN e ELSE NoopString(take_until(<<"CR", "LF">>, e.rest))

(* command_noop_args(buf) *)
command_noop_args(buf) == NoopSpaces(eat_spaces(buf))

NoopBytes == {" ", "TAB", "a", "CR", "LF"}

(* " \t hello.world \t \r\n", "\r\n", " \r\n", with the runs of letters cut *)
(* to one byte, and two commands one behind the other                       *)
NoopTests ==
  {<<" ", "TAB", " ", "a", ".", "a", " ", "TAB", " ", "CR", "LF">>,
   <<"CR", "LF">>,
   <<" ", "CR", "LF">>,
   <<" ", "a", " ", "CR", "LF", " ", "a", "CR", "LF">>}

NoopInputs == Strings(NoopBytes, MaxBuf) \cup UNION {Prefixes(w) : w \in NoopTests}

InitNoop ==
  /\ cfg = NoCfg
  /\ mem \in NoopInputs
  /\ heap = {}
  /\ freed = {}
  /\ h = IdleHost
  /\ g = IdleGuest
  /\ trace = <<>>
  /\ history = <<>>
  /\ exports = {}
  /\ budget = 1

ParseNoop ==
  /\ budget > 0
  /\ budget' = budget - 1
  /\ trace' = Append(trace, command_noop_args(mem))
  /\ UNCHANGED <<cfg, heap, freed, mem, h, g, history, exports>>

NextNoop == ParseNoop

SpecNoop == InitNoop /\ [][NextNoop]_vars

----------------------------------------------------------------------------
(* Localpart::parse on buffers of the bytes its regexes tell apart: a       *)
(* letter, another atext character, the comma and the dot of the range      *)
(* "+-/", a quote, a character that is not ASCII, and a byte that ends a    *)
(* localpart.                                                               *)

LocalpartBytes == {"a", "+", ",", ".", "\"", "@", "C3", "A9"}

LocalpartInputs == Strings(LocalpartBytes, MaxBuf)

InitLocalpart ==
  /\ cfg = NoCfg
  /\ mem \in LocalpartInputs
  /\ heap = {}
  /\ freed = {}
  /\ h = IdleHost
  /\ g = IdleGuest
  /\ trace = <<>>
  /\ history = <<>>
  /\ exports = {}
  /\ budget = 1

(* Localpart::parse(buf) *)
ParseLocalpart ==
  /\ budget > 0
  /\ budget' = budget - 1
  /\ trace' = Append(trace, [buf |-> mem, res |-> LocalpartParse(mem)])
  /\ UNCHANGED <<cfg, heap, freed, mem, h, g, history, exports>>

NextLocalpart == ParseLocalpart

SpecLocalpart == InitLocalpart /\ [][NextLocalpart]_vars

----------------------------------------------------------------------------
(* Comparison of Hostname values                                            *)

(* Hostname::raw(&self): every arm of the match gives the raw field *)
raw(host) ==
  CASE host.variant = "Utf8Domain" -> host.raw
    [] host.variant = "AsciiDomain" -> host.raw
    [] host.variant = "Ipv4" -> host.raw
    [] host.variant = "Ipv6" -> host.raw

(* a comparison that looks at the variant and at every field *)
HostnameEqDeep(s, o) == s = o

(* <Hostname<S> as PartialEq>::eq(&self, o) *)
HostnameEq(s, o) == raw(s) = raw(o)

(* the Hostname values anyone can build: a variant, a raw text, and the     *)
(* punycode or the address that the variant carries, related or not         *)
Raws == {<<"a">>, <<"f", "a">>}

HostnameValues ==
  [variant : {"Utf8Domain", "Ipv4", "Ipv6"}, raw : Raws, extra : {<<"a">>, <<"1">>}]
  \cup [variant : {"AsciiDomain"}, raw : Raws, extra : {<<>>}]

InitEq ==
  /\ cfg = NoCfg
  /\ mem \in [1..3 -> HostnameValues]
  /\ heap = {}
  /\ freed = {}
  /\ h = IdleHost
  /\ g = IdleGuest
  /\ trace = <<>>
  /\ history = <<>>
  /\ exports = {}
  /\ budget = 1

(* the three values compared with one another, each pair both ways *)
CompareHostnames ==
  /\ budget > 0
  /\ budget' = budget - 1
  /\ trace' = Append(trace, [i \in 1..3 |-> [j \in 1..3 |-> HostnameEq(mem[i], mem[j])]])
  /\ UNCHANGED <<cfg, heap, freed, mem, h, g, history, exports>>

NextEq == CompareHostnames

SpecEq == InitEq /\ [][NextEq]_vars

----------------------------------------------------------------------------
(* Reading the steps of the current operation *)

IsHostEv(e) == e.who = "host"
IsGuestEv(e) == e.who = "guest"
HostEvents == SelectSeq(trace, IsHostEv)
GuestEvents == SelectSeq(trace, IsGuestEv)

Touches == {"read", "write", "dealloc"}

Last(seq) == seq[Len(seq)]

----------------------------------------------------------------------------
(* C1: every argument buffer and every result buffer has one owner at each   *)
(* instant: the argument block is the host's from its allocation until the  *)
(* entry point is invoked and the guest's afterwards, the result block is   *)
(* the guest's until the entry point returns and the host's afterwards; and *)
(* every read, write and deallocation of a block is made by the side that   *)
(* owns it at that moment (never on a block already freed).  A null address *)
(* names no block.                                                          *)
C1_SingleOwner ==
  /\ \A i \in 1..Len(trace) :
       trace[i].op \in Touches =>
         \/ trace[i].own = trace[i].who
         \/ trace[i].own = "none" /\ trace[i].ptr = Null
  /\ (h.pc \in {"check_arg", "serialize", "write", "invoke"} /\ IsLive(h.arg_ptr, h.arg_size))
       => OwnerOf(h.arg_ptr, h.arg_size) = "host"
  /\ (g.pc \in {"read", "dealloc"} /\ IsLive(g.arg_ptr, g.arg_size))
       => OwnerOf(g.arg_ptr, g.arg_size) = "guest"
  /\ (g.pc \in {"write", "return"} /\ IsLive(g.ret_ptr, g.ret_size))
       => OwnerOf(g.ret_ptr, g.ret_size) = "guest"
  /\ (g.pc = "returned" /\ g.kind = "call" /\ IsLive(g.ret_ptr, g.ret_size))
       => OwnerOf(g.ret_ptr, g.ret_size) = "host"

(* a call that went through with both buffers real blocks: the host wrote    *)
(* and the guest read and freed the argument block, the guest wrote and the *)
(* host read and freed the result block                                     *)
C1_Witness ==
  /\ h.pc = "idle" /\ h.kind = "call"
  /\ Len(history) > 0 /\ Last(history).ok
  /\ \E i \in 1..Len(trace) : trace[i].who = "host" /\ trace[i].op = "write" /\ trace[i].own = "host"
  /\ \E i \in 1..Len(trace) : trace[i].who = "guest" /\ trace[i].op = "dealloc" /\ trace[i].own = "guest"
  /\ \E i \in 1..Len(trace) : trace[i].who = "guest" /\ trace[i].op = "write" /\ trace[i].own = "guest"
  /\ \E i \in 1..Len(trace) : trace[i].who = "host" /\ trace[i].op = "read" /\ trace[i].own = "host"
  /\ \E i \in 1..Len(trace) : trace[i].who = "host" /\ trace[i].op = "dealloc" /\ trace[i].own = "host"

----------------------------------------------------------------------------
(* the accesses made through a pair that crossed the boundary: the host's    *)
(* write of the arguments and read of the result, the guest's read of the   *)
(* arguments                                                                *)
CrossingAccess(e) ==
  \/ e.who = "host" /\ e.op \in {"read", "write"}
  \/ e.who = "guest" /\ e.op = "read"

CheckOf(e) == IF e.who = "host" /\ e.op = "read" THEN "check_res" ELSE "check_arg"

----------------------------------------------------------------------------
(* C3: against any module, the host writes the arguments (in a call and in   *)
(* setup) and reads the result only after checking that address + size,     *)
(* added without wrap-around, is strictly below the memory size; when the   *)
(* check fails the operation ends there with an error and the host has not  *)
(* written or read a byte of guest memory for that buffer.                  *)
C3_HostBoundsCheck ==
  /\ \A i \in 1..Len(trace) :
       (trace[i].who = "host" /\ trace[i].op \in {"read", "write"})
         => trace[i].ptr + trace[i].size < MemSize
  /\ \A i \in 1..Len(trace) :
       trace[i].op \in {"check_arg", "check_res"}
         => (trace[i].ok <=> trace[i].ptr + trace[i].size < MemSize)
  /\ \A i \in 1..Len(trace) :
       (trace[i].op \in {"check_arg", "check_res"} /\ ~trace[i].ok) =>
         /\ i = Len(trace)
         /\ h.pc = "idle"
         /\ Len(history) > 0 /\ ~Last(history).ok /\ Last(history).phase = trace[i].op
         /\ trace[i].op = "check_arg" =>
              /\ \A k \in 1..Len(trace) : trace[k].op # "write"
              /\ \A a, b \in DOMAIN mem : mem[a] = mem[b]
         /\ trace[i].op = "check_res" =>
              /\ \A k \in 1..Len(trace) : ~(trace[k].who = "host" /\ trace[k].op = "read")
              /\ h.res_msg = <<>>

(* a returned pair whose sum passes the width of a u32 was refused *)
C3_Witness ==
  /\ Len(trace) > 0
  /\ Last(trace).op = "check_res" /\ ~Last(trace).ok
  /\ Last(trace).ptr + Last(trace).size > U32Max
  /\ h.pc = "idle"

----------------------------------------------------------------------------
SetupOks == {i \in 1..Len(history) : history[i].kind = "setup" /\ history[i].ok}

(* C4: over any sequence of operations on one instance at most one Setup     *)
(* succeeds: the setup entry point stores a configuration only when the     *)
(* cell is empty, and every Setup made after a successful one fails.        *)
C4_AtMostOneSetup ==
  /\ Cardinality(SetupOks) <= 1
  /\ \A i \in SetupOks : \A j \in (i + 1)..Len(history) :
       history[j].kind = "setup" => ~history[j].ok
  /\ \A i \in 1..Len(history) :
       history[i].cfg1 # history[i].cfg0 => ~history[i].cfg0.set
  /\ cfg # h.cfg0 => ~h.cfg0.set

(* a Setup succeeded and the Setup after it failed *)
C4_Witness ==
  /\ Len(history) = 2
  /\ history[1].kind = "setup" /\ history[1].ok
  /\ history[2].kind = "setup" /\ ~history[2].ok

----------------------------------------------------------------------------
(* C5: a Setup on an instance whose configuration is set fails whatever the  *)
(* payload, the configuration after it is the one before it, and            *)
(* Config::setup is not run.                                                *)
C5_SetupRejectedUnchanged ==
  /\ \A i \in 1..Len(history) :
       (history[i].kind = "setup" /\ history[i].cfg0.set) =>
         ~history[i].ok /\ history[i].cfg1 = history[i].cfg0
  /\ (h.kind = "setup" /\ h.cfg0.set) =>
       /\ cfg = h.cfg0
       /\ g.pc # "returned"
       /\ \A i \in 1..Len(trace) : trace[i].op # "config_setup"

(* a Setup carrying another path than the configured one was rejected by     *)
(* the guest                                                                *)
C5_Witness ==
  /\ h.pc = "idle" /\ h.kind = "setup" /\ h.cfg0.set
  /\ h.args[1] \in Val /\ h.args[1] # cfg.path
  /\ Last(trace).who = "host" /\ Last(trace).op = "run"
  /\ \E i \in 1..Len(trace) : trace[i].who = "guest" /\ trace[i].op = "assert"

----------------------------------------------------------------------------
(* C6: a procedure entry point invoked while the configuration is empty      *)
(* traps: the implementation is not run, no result block is allocated or    *)
(* written, no word is returned, and the host call fails.                   *)
C6_NoProcedureBeforeSetup ==
  (g.kind = "call" /\ ~cfg.set) =>
    /\ g.pc \notin {"alloc", "write", "return", "returned"}
    /\ \A i \in 1..Len(trace) :
         trace[i].who = "guest" => trace[i].op \notin {"impl", "alloc", "write", "return"}
    /\ (h.pc = "idle" /\ h.kind = "call") => ~Last(history).ok

(* the entry point reached the call of the implementation without a          *)
(* configuration and trapped there                                          *)
C6_Witness ==
  /\ g.kind = "call" /\ ~cfg.set /\ g.pc = "trapped"
  /\ \E i \in 1..Len(trace) : trace[i] = Step("guest", "call", FALSE)
  /\ h.pc = "idle" /\ ~Last(history).ok /\ Last(history).phase = "run"

----------------------------------------------------------------------------
Faults(o) == ~o.ok /\ o.phase \in {"run", "check_arg", "check_res", "alloc", "dealloc"}

(* the host operations started so far *)
Started == MaxCalls - budget

----------------------------------------------------------------------------
C8_Steps ==
  <<"size", "alloc", "check_arg", "serialize", "write", "invoke", "unpack",
    "check_res", "read", "dealloc", "decode", "writeback", "return">>

(* C8: a host call takes its steps in the order size, allocate, check of     *)
(* the argument pair, write of the encoding, invocation, unpacking, check   *)
(* of the result pair, read, deallocation, decoding, write-back, return,    *)
(* each only after the one before succeeded (a trap of the entry point      *)
(* takes the place of the unpacking): the result block is freed after its   *)
(* bytes were copied and before they are decoded.                           *)
C8_HostCallOrder ==
  LET he == HostEvents IN
    h.kind = "call" =>
      /\ Len(he) <= Len(C8_Steps)
      /\ \A i \in 1..Len(he) :
           /\ he[i].ok => he[i].op = C8_Steps[i]
           /\ ~he[i].ok =>
                /\ i = Len(he)
                /\ \/ he[i].op = C8_Steps[i]
                   \/ he[i].op = "run" /\ C8_Steps[i] = "unpack"

(* a call that took all its steps *)
C8_Witness ==
  /\ h.kind = "call" /\ h.pc = "idle"
  /\ Len(HostEvents) = Len(C8_Steps)
  /\ Last(history).ok

----------------------------------------------------------------------------
C9_Steps == <<"read", "dealloc", "impl", "alloc", "write", "return">>

(* C9: a procedure entry point reads and decodes the argument block, frees   *)
(* it, runs the implementation, allocates a result block of the encoded     *)
(* size of the result tuple, writes the encoding and returns the packed     *)
(* word, in this order: the argument block is freed once, and before the    *)
(* implementation runs.                                                     *)
C9_GuestEntryOrder ==
  LET ge == GuestEvents IN
    g.kind = "call" =>
      /\ Len(ge) <= Len(C9_Steps)
      /\ \A i \in 1..Len(ge) :
           /\ ge[i].ok => ge[i].op = C9_Steps[i]
           /\ ~ge[i].ok =>
                /\ i = Len(ge)
                /\ \/ ge[i].op = C9_Steps[i]
                   \/ ge[i].op = "call" /\ C9_Steps[i] = "impl"
           /\ ge[i].op = "dealloc" =>
                ge[i].ptr = g.arg_ptr /\ ge[i].size = g.arg_size
           /\ ge[i].op \in {"alloc", "write", "return"} =>
                /\ ge[i].size = 1 + Len(MutIdx(g.proc))
                /\ ge[i].size = SerializedSize(g.res)
                /\ ge[i].ptr = g.ret_ptr
      /\ g.pc = "returned" => g.word = g.ret_size * (U32Max + 1) + g.ret_ptr

(* an entry point that took all its steps on a live argument block *)
C9_Witness ==
  /\ g.kind = "call" /\ g.pc = "returned"
  /\ Len(GuestEvents) = Len(C9_Steps)
  /\ GuestEvents[2].own = "guest"

----------------------------------------------------------------------------
(* C10, as claimed: the entry point frees the argument block in its return   *)
(* phase, after the result block was allocated and written: no              *)
(* deallocation of the argument block precedes the write of the result.     *)
C10_FreeAfterResultWrite ==
  LET ge == GuestEvents IN
    g.kind = "call" =>
      \A i \in 1..Len(ge) :
        ge[i].op = "dealloc" =>
          \E j \in 1..(i - 1) : ge[j].op = "write"

(* C10, amended: the entry point frees the argument block right after        *)
(* decoding it, before the implementation runs and so before the result     *)
(* block is allocated and written; its return phase is the allocation, the  *)
(* write and the return of the packed word (size in the high half, address  *)
(* in the low half), with no deallocation in it.                            *)
C10_FreeBeforeResult ==
  LET ge == GuestEvents IN
    g.kind = "call" =>
      /\ \A j \in 1..Len(ge) :
           ge[j].op \in {"impl", "alloc", "write", "return"} =>
             /\ \E i \in 1..(j - 1) : ge[i].op = "dealloc" /\ ge[i].ok
             /\ \A i \in j..Len(ge) : ge[i].op # "dealloc"
      /\ g.pc = "returned" =>
           /\ UnpackSize(g.word) = g.ret_size
           /\ UnpackPtr(g.word) = g.ret_ptr

(* an entry point returned, its argument block freed before the result       *)
(* block was allocated                                                      *)
C10_Witness ==
  /\ g.kind = "call" /\ g.pc = "returned"
  /\ \E i, j \in 1..Len(GuestEvents) :
       /\ i < j
       /\ GuestEvents[i].op = "dealloc" /\ GuestEvents[i].own = "guest"
       /\ GuestEvents[j].op = "alloc" /\ GuestEvents[j].ptr # Null

----------------------------------------------------------------------------
(* the arguments of a kind, by their place in the declaration *)
ArgsWhere(p, mut) == {i \in 1..NArgs(p) : ArgsOf(p)[i].is_mut = mut}

(* the members of a set of places, in increasing order *)
InOrder(S) ==
  [k \in 1..Cardinality(S) |-> CHOOSE i \in S : Cardinality({j \in S : j < i}) = k - 1]

HostSucceeded == h.kind = "call" /\ h.pc = "idle" /\ Len(history) > 0 /\ Last(history).ok

(* C11: for every procedure of the registry the result tuple is the primary  *)
(* value followed by the post-call value of each &mut argument, in          *)
(* declaration order, and nothing of the other arguments; the guest encodes *)
(* it in this order and the host decodes and assigns it in the same order.  *)
C11_ResultTupleOrder ==
  LET mo == InOrder(ArgsWhere(g.proc, TRUE)) IN
    /\ (g.kind = "call" /\ g.pc \in {"alloc", "write", "return", "returned"}) =>
         /\ Len(g.res) = 1 + Len(mo)
         /\ g.res[1] = g.ret
         /\ \A k \in 1..Len(mo) : g.res[1 + k] = g.args[mo[k]]
    /\ HostSucceeded =>
         /\ h.res_msg = Serialize(g.res)
         /\ h.res = h.res_msg[1]
         /\ \A k \in 1..Len(mo) : h.args[mo[k]] = h.res_msg[1 + k]

(* a call with two &mut arguments succeeded, the guest having left           *)
(* different values in them                                                 *)
C11_Witness ==
  /\ HostSucceeded
  /\ Cardinality(ArgsWhere(h.proc, TRUE)) = 2
  /\ Cardinality(ArgsWhere(h.proc, FALSE)) = 1
  /\ h.res_msg[2] # h.res_msg[3]

----------------------------------------------------------------------------
(* C12: after a successful call the closure returns the primary value the    *)
(* implementation returned, and each host binding passed as &mut holds the  *)
(* value the implementation left in that very parameter; the other          *)
(* bindings are as they were passed.                                        *)
C12_WriteBack ==
  HostSucceeded =>
    /\ h.res = g.ret
    /\ \A i \in ArgsWhere(h.proc, TRUE) : h.args[i] = g.args[i]
    /\ \A i \in ArgsWhere(h.proc, FALSE) : h.args[i] = h.arg_vec[i]

(* the call of the scenario: one immutable and two &mut arguments, the       *)
(* implementation changes the first &mut argument, leaves another value in  *)
(* the second and returns true                                              *)
C12_Witness ==
  /\ HostSucceeded
  /\ ArgsWhere(h.proc, FALSE) = {1} /\ ArgsWhere(h.proc, TRUE) = {2, 3}
  /\ h.res = 1
  /\ h.args[2] # h.arg_vec[2]
  /\ h.args[2] # h.args[3]

----------------------------------------------------------------------------
(* C13: the argument buffer of every procedure of the registry holds the     *)
(* encoding of the tuple (immutable arguments in order, then &mut arguments *)
(* in order), which is the declaration order of every procedure, and the    *)
(* guest binds each parameter to the value the host passed for it.          *)
C13_ArgTupleOrder ==
  LET io == InOrder(ArgsWhere(h.proc, FALSE))
      mo == InOrder(ArgsWhere(h.proc, TRUE))
      tuple == [k \in 1..Len(io) |-> h.args[io[k]]] \o [k \in 1..Len(mo) |-> h.args[mo[k]]]
  IN
    /\ (h.kind = "call" /\ h.pc \in {"write", "invoke", "unpack"}) =>
         h.arg_vec = Serialize(tuple)
    /\ (h.kind = "call" /\ g.kind = "call" /\ g.pc \in {"dealloc", "call"}) =>
         /\ Len(g.args) = NArgs(h.proc)
         /\ \A i \in 1..NArgs(h.proc) : g.args[i] = h.args[i]

(* the guest decoded the arguments of a procedure with immutable and &mut    *)
(* arguments of different values                                            *)
C13_Witness ==
  /\ h.kind = "call" /\ g.kind = "call" /\ g.pc = "call"
  /\ ArgsWhere(h.proc, FALSE) = {1, 2} /\ ArgsWhere(h.proc, TRUE) = {3}
  /\ g.args[1] # g.args[2] /\ g.args[2] # g.args[3]

----------------------------------------------------------------------------
(* C14: for every address and every size of a u32 the word an entry point    *)
(* returns has the size in its high half and the address in its low half    *)
(* (size << 32 | address at the real width), no bit of the address reaches  *)
(* the size half, and the host reads back the address and the size the      *)
(* guest packed.                                                            *)
C14_PackUnpack ==
  /\ (g.kind = "call" /\ g.pc = "returned") =>
       /\ g.word \div 2^AddrBits = g.ret_size
       /\ g.word % 2^AddrBits = g.ret_ptr
       /\ g.word < 2^(2 * AddrBits)
  /\ (h.kind = "call" /\ h.pc = "check_res" /\ g.pc = "returned") =>
       /\ h.res_ptr = g.ret_ptr
       /\ h.res_size = g.ret_size

(* the host unpacked the word of the highest address and a size of one *)
C14_Witness ==
  /\ h.kind = "call" /\ h.pc = "check_res"
  /\ g.ret_ptr = U32Max /\ g.ret_size = 1
  /\ h.res_ptr = U32Max /\ h.res_size = 1

----------------------------------------------------------------------------
(* the encoded size of the arguments of the operation in progress *)
EncodedSize ==
  IF h.kind = "call" THEN SerializedSize(HostArg(h.proc, h.args))
  ELSE IF h.kind = "setup" /\ PathSerializable(h.args[1]) THEN SerializedSize(h.args)
  ELSE 0

(* C15: when the encoded size of the arguments passes the range of a u32,    *)
(* the operation fails at the size computation (with an error, or with the  *)
(* panic of a debug assertion): the guest allocator is not called, with no  *)
(* size at all and so with no size reduced to 32 bits.                      *)
C15_SizeOverflowRejected ==
  EncodedSize > U32Max =>
    /\ \A i \in 1..Len(trace) : ~(trace[i].who = "host" /\ trace[i].op = "alloc")
    /\ h.pc = "idle" => (~Last(history).ok /\ Last(history).phase \in {"size", "panic"})

----------------------------------------------------------------------------
(* C16: when the guest allocator returns the null address (0), on the        *)
(* host's request for the argument block or on the entry point's request    *)
(* for the result block, the operation fails and no byte is written         *)
(* through that address.                                                    *)
C16_NullAllocationFails ==
  \A i \in 1..Len(trace) :
    (trace[i].op = "alloc" /\ trace[i].ptr = Null) =>
      /\ \A j \in (i + 1)..Len(trace) :
           ~(/\ trace[j].who = trace[i].who /\ trace[j].op = "write"
             /\ trace[j].ptr = Null /\ trace[j].size > 0)
      /\ h.pc = "idle" => ~Last(history).ok

----------------------------------------------------------------------------
(* every export build asks for is there with its type *)
AllResolvable ==
  /\ Export("memory", MemoryTy) \in exports
  /\ \A p \in Procs : Export(SERVER_CONFIG[p].ffi_name, EntryTy) \in exports

BuildEnded == h.kind = "build" /\ h.pc = "idle"

(* C17: build returns a client only when the memory export and the export   *)
(* of every procedure of the registry were found with the type               *)
(* (u32, u32) -> u64, and then the client has one callable per procedure;   *)
(* when the memory export or a procedure export is missing or of another    *)
(* type, build returns an error and hands over nothing, not even the        *)
(* callables made before the failing export.                                *)
C17_BuildAllOrNothing ==
  BuildEnded =>
    /\ Last(history).kind = "build"
    /\ Last(history).ok <=> AllResolvable
    /\ Last(history).ok => h.res = [p \in 1..Len(SERVER_CONFIG) |-> p]
    /\ ~Last(history).ok => (h.res = <<>> /\ h.args = <<>>)
    /\ ~GetMemory("memory") => \A i \in 1..Len(trace) : trace[i].op # "func"

(* build failed on a procedure export after it had made the callables of     *)
(* the procedures before it                                                 *)
C17_Witness ==
  /\ BuildEnded
  /\ ~Last(history).ok
  /\ Last(trace).op \in {"get_func", "get2"}
  /\ \E i \in 1..Len(trace) : trace[i].op = "func" /\ trace[i].ok

----------------------------------------------------------------------------
(* C18: the host asks the guest allocator for the encoded size of the        *)
(* argument tuple, and when the encoding has another length than the size   *)
(* asked for, the call ends (with an error or a panic) before a byte is     *)
(* copied into the memory and before the entry point is invoked.            *)
C18_ExactSizeOrFatal ==
  h.kind = "call" =>
    \A i \in 1..Len(trace) :
      /\ (trace[i].who = "host" /\ trace[i].op = "alloc") =>
           trace[i].size = EncodedSize
      /\ (trace[i].who = "host" /\ trace[i].op \in {"write", "invoke"}) =>
           Len(h.arg_vec) = trace[i].size

----------------------------------------------------------------------------
(* the phases of a host call that can return an error *)
CallPhases ==
  {"size", "alloc", "check_arg", "serialize", "run", "check_res", "dealloc", "decode"}

(* C19: the error a host call returns names the procedure and tells the      *)
(* phase that failed, in each phase: its message quotes the procedure's     *)
(* exported name and is the message of no other phase.                      *)
C19_ErrorNamesProcedureAndPhase ==
  \A i \in 1..Len(history) :
    LET o == history[i]
    IN (o.kind = "call" /\ ~o.ok /\ o.phase \in CallPhases) =>
         /\ \E k \in 1..Len(o.err) : o.err[k] = SERVER_CONFIG[o.proc].ffi_name
         /\ \A ph \in CallPhases \ {o.phase} : ErrorContext("call", o.proc, ph) # o.err

----------------------------------------------------------------------------
(* the host asked the deallocator, with or without success, to free the     *)
(* block at step j                                                          *)
DeallocAttempt(j, ptr, size) ==
  /\ trace[j].who = "host" /\ trace[j].op = "dealloc"
  /\ trace[j].ptr = ptr /\ trace[j].size = size

(* C20: a failure of the guest deallocator is never dropped. When the       *)
(* deallocation of the result block fails the host call returns an error;   *)
(* and when a host call fails after a block was allocated (the argument     *)
(* block not yet passed to the entry point, or the result block the entry   *)
(* point returned), the deallocation of that block is still attempted.      *)
C20_DeallocNeverDropped ==
  (h.kind = "call" /\ h.pc = "idle") =>
    /\ \A i \in 1..Len(trace) :
         (trace[i].who = "host" /\ trace[i].op = "dealloc" /\ ~trace[i].ok) =>
           (~Last(history).ok /\ Last(history).phase = "dealloc")
    /\ (~Last(history).ok /\ Last(history).phase \in {"check_arg", "serialize"}) =>
         \E j \in 1..Len(trace) : DeallocAttempt(j, h.arg_ptr, h.arg_size)
    /\ (~Last(history).ok /\ Last(history).phase = "check_res") =>
         \E j \in 1..Len(trace) : DeallocAttempt(j, h.res_ptr, h.res_size)

----------------------------------------------------------------------------
(* C21: the host picks no address of the guest memory itself. Every write   *)
(* of the host into the memory, in a procedure call and in setup, is to the *)
(* region of the address and size that the guest allocator returned to the  *)
(* host earlier in the same operation.                                      *)
C21_HostWritesWhereAllocated ==
  \A j \in 1..Len(trace) :
    (trace[j].who = "host" /\ trace[j].op = "write") =>
      \E i \in 1..(j - 1) :
        /\ trace[i].who = "host" /\ trace[i].op = "alloc"
        /\ trace[i].ptr = trace[j].ptr /\ trace[i].size = trace[j].size

(* the host wrote the arguments of a call into a block that does not start  *)
(* the heap                                                                 *)
C21_Witness ==
  /\ h.kind = "call"
  /\ \E j \in 1..Len(trace) :
       /\ trace[j].who = "host" /\ trace[j].op = "write"
       /\ trace[j].ptr # HeapBase /\ trace[j].size > 0

----------------------------------------------------------------------------
(* the allocator returned a block, not null, each time it was asked, and    *)
(* the implementation did not panic                                         *)
AllocatedAndRan ==
  \A i \in 1..Len(trace) :
    /\ trace[i].op = "alloc" => trace[i].ptr # Null
    /\ trace[i].op = "impl" => trace[i].ok

(* the steps of a call that move bytes, with the number of bytes moved *)
Moves(who) ==
  LET ev == SelectSeq(trace, LAMBDA e : e.who = who /\ e.op \in {"alloc", "write", "read", "dealloc"})
  IN [i \in 1..Len(ev) |-> <<ev[i].op, ev[i].size, ev[i].ok>>]

----------------------------------------------------------------------------
(* how many times the host took the step op in the operation in progress *)
HostCount(op) ==
  Cardinality({i \in 1..Len(trace) : trace[i].who = "host" /\ trace[i].op = op})

(* in one operation the host invokes the allocator, the entry point and     *)
(* the deallocator at most once each, and a step that failed is the last    *)
(* step the host takes                                                      *)
OnceAndNoRetry ==
  /\ HostCount("alloc") <= 1
  /\ HostCount("invoke") <= 1
  /\ HostCount("dealloc") <= 1
  /\ \A i \in 1..Len(trace) :
       (trace[i].who = "host" /\ ~trace[i].ok) =>
         /\ \A j \in (i + 1)..Len(trace) : trace[j].who # "host"
         /\ h.pc = "idle" /\ ~Last(history).ok

(* the operation in progress returned: its outcome, a value or an error, is *)
(* the last of the history                                                  *)
Returned ==
  /\ h.pc = "idle"
  /\ Len(history) > 0
  /\ Last(history).kind = h.kind
  /\ Last(history).ok <=> (\A i \in 1..Len(trace) : trace[i].ok)

(* C23: every host operation, setup or procedure call, returns a value or   *)
(* an error to its caller once the guest returned or trapped; in one        *)
(* operation the host invokes the guest allocator, the entry point and the  *)
(* guest deallocator at most once each, and no step that failed is taken    *)
(* again.                                                                   *)
C23_ReturnsAndNeverRetries ==
  /\ [](OnceAndNoRetry)
  /\ (h.pc # "idle") ~> Returned

(* a call that failed at the check of the argument block after its one      *)
(* request to the allocator                                                 *)
C23_Witness ==
  /\ h.kind = "call" /\ h.pc = "idle"
  /\ ~Last(history).ok /\ Last(history).phase = "check_arg"
  /\ HostCount("alloc") = 1

----------------------------------------------------------------------------
C24_Steps ==
  <<"resolve", "size", "alloc", "check_arg", "serialize", "write", "invoke", "return">>

(* the memory and the setup function are exported with their types *)
SetupResolvable ==
  Export("memory", MemoryTy) \in exports /\ Export("setup", SetupTy) \in exports

(* C24: the host setup looks up the memory and the setup function, then     *)
(* allocates, checks the block, writes and calls, and has no result block:  *)
(* the lookups come before the call of the allocator (when one of them      *)
(* fails, setup fails and the allocator was not called), the allocator and  *)
(* the setup entry point are invoked once at most, and the host neither     *)
(* reads the memory nor calls the deallocator.                              *)
C24_SetupPattern ==
  LET he == HostEvents IN
    h.kind = "setup" =>
      /\ Len(he) <= Len(C24_Steps)
      /\ \A i \in 1..Len(he) :
           /\ he[i].ok => he[i].op = C24_Steps[i]
           /\ ~he[i].ok =>
                /\ i = Len(he)
                /\ \/ he[i].op = C24_Steps[i]
                   \/ he[i].op = "run" /\ C24_Steps[i] = "return"
           /\ he[i].op \notin {"read", "dealloc", "unpack", "check_res", "decode"}
      /\ ~SetupResolvable =>
           /\ \A i \in 1..Len(he) : he[i].op # "alloc"
           /\ h.pc = "idle" => (~Last(history).ok /\ Last(history).phase = "resolve")
      /\ HostCount("alloc") <= 1
      /\ HostCount("invoke") <= 1

(* a setup that took all its steps *)
C24_Witness ==
  /\ h.kind = "setup" /\ h.pc = "idle"
  /\ Last(history).ok
  /\ Len(HostEvents) = Len(C24_Steps)
  /\ HostCount("alloc") = 1 /\ HostCount("invoke") = 1

----------------------------------------------------------------------------
(* C25: a procedure call, successful or not, leaves the configuration as it *)
(* was: during the call and at its end the configuration is the one the     *)
(* call started with, so an instance that is configured stays configured    *)
(* with the same value over its calls.                                      *)
C25_CallKeepsConfig ==
  /\ h.kind = "call" => cfg = h.cfg0
  /\ \A i \in 1..Len(history) :
       history[i].kind = "call" => history[i].cfg1 = history[i].cfg0
  /\ \A i \in 1..Len(history) : \A j \in (i + 1)..Len(history) :
       (history[i].kind = "setup" /\ history[i].ok) =>
         (history[j].cfg1 = history[i].cfg1 /\ cfg = history[i].cfg1)

(* a call that succeeded on a configured instance, the implementation having *)
(* run                                                                      *)
C25_Witness ==
  /\ h.kind = "call" /\ h.pc = "idle"
  /\ Last(history).ok
  /\ cfg.set /\ cfg = Last(history).cfg0
  /\ \E i \in 1..Len(trace) : trace[i].op = "impl" /\ trace[i].ok

----------------------------------------------------------------------------
(* the one connection on which STARTTLS can be done by default: not         *)
(* encrypted, and a hello was received that was an EHLO                     *)
PlainAfterEhlo(conn_meta) ==
  /\ conn_meta.is_encrypted = FALSE
  /\ conn_meta.hello # None
  /\ conn_meta.hello = Some([is_ehlo |-> TRUE])

(* what can_do_tls answers for the policy object, read off the object *)
TlsAnswer(conn_meta) ==
  IF cfg.overrides THEN cfg.can_do_tls[conn_meta] ELSE PlainAfterEhlo(conn_meta)

(* C26: where the policy object does not override can_do_tls, can_do_tls    *)
(* returns true exactly on a connection that is not encrypted and on which  *)
(* a hello was received that was an EHLO (false without hello); the default *)
(* handle_starttls accepts exactly where can_do_tls, the default or the     *)
(* object's own, returns true, and rejects with command-not-supported       *)
(* elsewhere.                                                              *)
C26_TlsDefaults ==
  \A i \in 1..Len(trace) :
    LET c == trace[i] IN
      /\ (c.op = "can_do_tls" /\ ~cfg.overrides) =>
           (c.res <=> PlainAfterEhlo(c.conn_meta))
      /\ c.op = "handle_starttls" =>
           c.res = IF TlsAnswer(c.conn_meta)
                   THEN [decision |-> "Accept", reply |-> "okay_starttls"]
                   ELSE [decision |-> "Reject", reply |-> "command_not_supported"]

(* the defaults were asked about a plain connection without hello: the      *)
(* default can_do_tls said no and the default handle_starttls rejected      *)
C26_Witness ==
  /\ ~cfg.overrides
  /\ Len(trace) = 2
  /\ trace[1].op = "can_do_tls" /\ ~trace[1].res
  /\ trace[1].conn_meta = [is_encrypted |-> FALSE, hello |-> None]
  /\ trace[2].op = "handle_starttls" /\ trace[2].res.decision = "Reject"
  /\ trace[2].conn_meta = trace[1].conn_meta

----------------------------------------------------------------------------
(* the state of the DFA after the bytes of w *)
RECURSIVE RunDfa(_, _)
RunDfa(dfa, w) ==
  IF w = <<>> THEN StartState
  ELSE NextState(dfa, RunDfa(dfa, Take(w, Len(w) - 1)), w[Len(w)])

(* the lengths of the prefixes of the buffer up to and with the first one   *)
(* that leads to the dead state, or all of them                             *)
Walked(dfa, buf) ==
  {k \in 0..Len(buf) : \A j \in 0..(k - 1) : ~IsDeadState(dfa, RunDfa(dfa, Take(buf, j)))}

MatchesSeen(dfa, buf) ==
  {k \in Walked(dfa, buf) : IsMatchState(dfa, RunDfa(dfa, Take(buf, k)))}

DeadSeen(dfa, buf) ==
  \E k \in Walked(dfa, buf) : IsDeadState(dfa, RunDfa(dfa, Take(buf, k)))

SetMax(S) == CHOOSE x \in S : \A y \in S : y <= x

(* C27: the regex driver answers in one of three ways. Success, when a      *)
(* match state was seen before a dead state or the end of the buffer: the   *)
(* buffer is split at the last match state seen, never past its end.        *)
(* An error that is not Incomplete, when a dead state was reached and no    *)
(* match state before it. Incomplete, exactly when all of the buffer was    *)
(* read with no match state and no dead state, as for "[1.2" and            *)
(* "[IPv6:0::" under the hostname regex.                                    *)
C27_RegexDriver ==
  \A i \in 1..Len(trace) :
    LET r == trace[i]
        dfa == Regexes[cfg]
        seen == MatchesSeen(dfa, mem)
    IN /\ r.kind \in {"Ok", "Error", "Incomplete"}
       /\ r.kind = "Ok" <=> seen # {}
       /\ r.kind = "Ok" =>
            /\ Len(r.out) = SetMax(seen) /\ Len(r.out) <= Len(mem)
            /\ r.out \o r.rest = mem
       /\ r.kind = "Error" <=> (seen = {} /\ DeadSeen(dfa, mem))
       /\ r.kind = "Error" => r.rest = mem
       /\ r.kind = "Incomplete" <=> (seen = {} /\ ~DeadSeen(dfa, mem))
       /\ (cfg = "HOSTNAME_ASCII" /\ mem \in {<<"[", "1", ".", "1">>,
                                              <<"[", "I", "P", "v", "6", ":", "1", ":", ":">>}) =>
            r.kind = "Incomplete"

(* the hostname regex split a buffer at its last match, two bytes before    *)
(* the byte that led to the dead state                                      *)
C27_Witness ==
  /\ cfg = "HOSTNAME_ASCII"
  /\ mem = <<"a", ".", "-", "a">>
  /\ trace = <<Done(<<".", "-", "a">>, <<"a">>)>>

----------------------------------------------------------------------------
(* w is in the language of the regex *)
Matches(regex, w) == IsMatchState(regex, RunDfa(regex, w))

(* w is a hostname: a domain of ASCII labels, an address literal that the   *)
(* address parser takes, or an internationalized domain that idna takes     *)
ValidHostname(w, accepts) ==
  \/ Matches(HOSTNAME_ASCII, w) /\ AsciiHostname(w, accepts) # None
  \/ Matches(HOSTNAME_UTF8, w) /\ Utf8Hostname(w, accepts) # None

(* a non-empty label that starts and ends with a letter or a digit *)
GoodLabel(label) ==
  label # <<>> /\ label[1] \in Alnum /\ label[Len(label)] \in Alnum

(* C28: Hostname::parse takes the longest prefix of the buffer that is a    *)
(* hostname and leaves the rest. The ASCII domain it returns is a list of   *)
(* non-empty labels, separated by dots, that start and end with a letter or *)
(* a digit, so ("a.-a" gives "a" and leaves ".-a") no label that starts     *)
(* with a hyphen is in it; a buffer whose first label starts with a hyphen  *)
(* is rejected with an error that is not Incomplete; with a terminator the  *)
(* parse succeeds only where the terminator follows the match, and the      *)
(* terminator stays in the remainder.                                       *)
C28_HostnameLongestPrefix ==
  \A i \in 1..Len(trace) :
    LET r == trace[i] IN
      /\ r.kind = "Ok" =>
           /\ r.out.raw \o r.rest = mem
           /\ ValidHostname(r.out.raw, cfg.accepts)
           /\ cfg.term = <<>> =>
                \A k \in (Len(r.out.raw) + 1)..Len(mem) :
                  ~ValidHostname(Take(mem, k), cfg.accepts)
           /\ Take(r.rest, Len(cfg.term)) = cfg.term
           /\ r.out.variant = "AsciiDomain" =>
                \A k \in 1..Len(Split(r.out.raw, ".")) : GoodLabel(Split(r.out.raw, ".")[k])
      /\ (cfg.term = <<>> /\ mem # <<>> /\ mem[1] = "-") => r.kind = "Error"
      /\ (cfg.term = <<>> /\ mem = <<"a", ".", "-", "a">>) =>
           (r.kind = "Ok" /\ r.out.raw = <<"a">> /\ r.rest = <<".", "-", "a">>)

----------------------------------------------------------------------------
(* C29: two Hostname values are equal exactly when their raw values are     *)
(* equal, whatever their variants, addresses or punycode forms, and the     *)
(* equality is reflexive, symmetric and transitive.                         *)
C29_EqualityOnRawOnly ==
  \A n \in 1..Len(trace) :
    LET eq == trace[n] IN
      /\ \A i, j \in 1..3 : eq[i][j] <=> (mem[i].raw = mem[j].raw)
      /\ \A i \in 1..3 : eq[i][i]
      /\ \A i, j \in 1..3 : eq[i][j] => eq[j][i]
      /\ \A i, j, k \in 1..3 : (eq[i][j] /\ eq[j][k]) => eq[i][k]

(* two values of different variants and different second fields that were  *)
(* found equal, and a third one, of the first one's variant, found          *)
(* different from both                                                      *)
C29_Witness ==
  /\ Len(trace) = 1
  /\ mem[1].variant # mem[2].variant
  /\ mem[1].extra # mem[2].extra
  /\ trace[1][1][2]
  /\ mem[3].variant = mem[1].variant
  /\ ~trace[1][1][3]
  /\ ~trace[1][3][2]

----------------------------------------------------------------------------
(* the longest prefix of w that is a hostname, <<>> when there is none *)
LongestHostname(w, accepts) ==
  LET ks == {k \in 1..Len(w) : ValidHostname(Take(w, k), accepts)}
  IN IF ks = {} THEN <<>> ELSE Take(w, SetMax(ks))

(* the entries of a path prefix "@h1,@h2,..,@hn:" of w, <<>> when w has no  *)
(* such prefix of hostnames                                                 *)
PathEntries(w, accepts) ==
  IF \A i \in 1..Len(w) : w[i] # ":" THEN <<>>
  ELSE LET c == CHOOSE i \in 1..Len(w) : w[i] = ":" /\ \A j \in 1..(i - 1) : w[j] # ":"
           entries == Split(Take(w, c - 1), ",")
       IN IF \A k \in 1..Len(entries) :
               /\ entries[k] # <<>>
               /\ entries[k][1] = "@"
               /\ ValidHostname(Tail(entries[k]), accepts)
          THEN [k \in 1..Len(entries) |-> Tail(entries[k])]
          ELSE <<>>

(* what is left of w behind its path prefix *)
BehindPath(w) ==
  Drop(w, CHOOSE i \in 1..Len(w) : w[i] = ":" /\ \A j \in 1..(i - 1) : w[j] # ":")

(* Email::parse, first part: a buffer that starts with '@' is rejected with *)
(* an error that is not Incomplete, the localpart of a result is not empty, *)
(* and a localpart followed by a byte other than '@' gives hostname None    *)
(* and the remainder from that byte on                                      *)
EmailLocalpartPart(r) ==
  LET l == LocalpartParse(mem) IN
    /\ (mem # <<>> /\ mem[1] = "@") => r.kind = "Error"
    /\ r.kind = "Ok" => r.out.localpart.raw # <<>>
    /\ (l.kind = "Ok" /\ l.rest # <<>> /\ l.rest[1] # "@") =>
         /\ r.kind = "Ok"
         /\ r.out.localpart = l.out
         /\ r.out.hostname = None
         /\ r.rest = l.rest

(* Email::parse, second part: a localpart followed by '@' and a hostname    *)
(* gives that hostname                                                      *)
EmailHostnamePart(r) ==
  LET l == LocalpartParse(mem)
      w == IF l.kind = "Ok" /\ l.rest # <<>> /\ l.rest[1] = "@"
           THEN LongestHostname(Tail(l.rest), cfg.accepts) ELSE <<>>
  IN w # <<>> =>
       /\ r.kind = "Ok"
       /\ r.out.localpart = l.out
       /\ r.out.hostname # None
       /\ r.out.hostname[1].raw = w
       /\ r.rest = Drop(Tail(l.rest), Len(w))

(* email_in_path: without a path prefix it is Email::parse; a prefix of     *)
(* '@hostname' entries separated by commas and ended by ':' is taken, and   *)
(* its hostnames are the path, in the order of the input                    *)
EmailInPathPart(r) ==
  LET entries == PathEntries(mem, cfg.accepts) IN
    /\ (mem # <<>> /\ mem[1] # "@") =>
         LET e == EmailParse(mem, cfg.accepts)
         IN /\ r.kind = e.kind
            /\ r.kind = "Ok" => (r.rest = e.rest /\ r.out = [path |-> None, email |-> e.out])
    /\ entries # <<>> =>
         LET e == EmailParse(BehindPath(mem), cfg.accepts)
         IN /\ r.kind = e.kind
            /\ r.kind = "Ok" =>
                 /\ r.rest = e.rest
                 /\ r.out.email = e.out
                 /\ r.out.path # None
                 /\ [k \in 1..Len(r.out.path[1].domains) |-> r.out.path[1].domains[k].raw] = entries

(* C30: Email::parse wants a localpart that is not empty and takes the      *)
(* '@hostname' part when it is there: a buffer that starts with '@' is      *)
(* rejected with an error that is not Incomplete; a localpart followed by a *)
(* byte other than '@' gives hostname None and a remainder that starts at   *)
(* that byte; a localpart followed by '@' and a hostname gives that         *)
(* hostname. email_in_path takes, before the email, an optional prefix of   *)
(* '@hostname' entries separated by commas and ended by ':', and returns    *)
(* these hostnames, in the order of the input, as the path.                 *)
C30_EmailAndPath ==
  \A i \in 1..Len(trace) :
    /\ trace[i].op = "Email::parse" =>
         EmailLocalpartPart(trace[i].res) /\ EmailHostnamePart(trace[i].res)
    /\ trace[i].op = "email_in_path" => EmailInPathPart(trace[i].res)

----------------------------------------------------------------------------
(* the bytes of a quoted string without their backslashes: a backslash goes *)
(* and the byte behind it stays                                             *)
RECURSIVE Unescape(_)
Unescape(w) ==
  IF w = <<>> THEN <<>>
  ELSE IF w[1] = "\\" /\ Len(w) >= 2 THEN <<w[2]>> \o Unescape(Drop(w, 2))
  ELSE <<w[1]>> \o Unescape(Tail(w))

(* C31: Email::localpart() returns a localpart without quotes as it is, and *)
(* for a quoted localpart the bytes between the two quotes where each       *)
(* backslash is dropped and the byte behind it is kept, a backslash or a    *)
(* quote as any other.                                                      *)
C31_NiceLocalpart ==
  \A i \in 1..Len(trace) :
    LET lp == trace[i].email.localpart IN
      IF lp # <<>> /\ lp[1] = "\""
      THEN trace[i].nice = Gives(Unescape(SubSeq(lp, 2, Len(lp) - 1)))
      ELSE trace[i].nice = Gives(lp)

----------------------------------------------------------------------------
(* the places of the buffer where a CRLF begins *)
CrlfAt == {i \in 1..(Len(mem) - 1) : mem[i] = "CR" /\ mem[i + 1] = "LF"}

(* the number of spaces and tabs at the head of the buffer *)
LeadingBlanks ==
  SetMax({n \in 0..Len(mem) : \A i \in 1..n : mem[i] \in {" ", "TAB"}})

(* C32: command_noop_args skips the spaces and tabs at the head, gives as   *)
(* the string every byte from there up to the first CRLF, the spaces and    *)
(* tabs at its end included, takes the CRLF and leaves what follows it; an  *)
(* argument of spaces and tabs only, or none, gives the empty string.       *)
C32_NoopArgs ==
  \A i \in 1..Len(trace) :
    IF CrlfAt = {} THEN trace[i].kind # "Ok"
    ELSE LET crlf == CHOOSE c \in CrlfAt : \A d \in CrlfAt : c <= d IN
           /\ trace[i].kind = "Ok"
           /\ trace[i].out.string = SubSeq(mem, LeadingBlanks + 1, crlf - 1)
           /\ trace[i].rest = Drop(mem, crlf + 1)
           /\ (\A k \in 1..(crlf - 1) : mem[k] \in {" ", "TAB"}) => trace[i].out.string = <<>>

(* a command with blanks on both sides of its argument, and bytes behind    *)
(* its CRLF                                                                 *)
C32_Witness ==
  /\ Len(trace) = 1
  /\ trace[1].kind = "Ok"
  /\ mem[1] \in {" ", "TAB"}
  /\ trace[1].out.string # <<>>
  /\ trace[1].out.string[Len(trace[1].out.string)] \in {" ", "TAB"}
  /\ trace[1].rest # <<>>

----------------------------------------------------------------------------
(* the blocks that the allocator handed out during the current operation *)
AllocatedNow ==
  {[ptr |-> trace[i].ptr, size |-> trace[i].size] :
     i \in {j \in 1..Len(trace) : trace[j].op = "alloc" /\ trace[j].ok}}

(* the block of a failed bounds check of the current call is still live *)
LeakedAtFailure ==
  \A i \in 1..Len(trace) :
    (/\ h.kind = "call"
     /\ trace[i].who = "host"
     /\ trace[i].op \in {"check_arg", "check_res"}
     /\ ~trace[i].ok) => IsLive(trace[i].ptr, trace[i].size)

(* a step takes out of the heap only blocks of the current operation *)
OnlyOwnBlocksFreed ==
  \A b \in heap \ heap' : [ptr |-> b.ptr, size |-> b.size] \in AllocatedNow

----------------------------------------------------------------------------
(* C34: every deallocate, of the argument block by the guest and of the     *)
(* result block by the host, is given the address and the size of an        *)
(* earlier allocate whose block is still allocated, so that no block is     *)
(* freed twice; and when a procedure call has succeeded no block allocated  *)
(* during the call is still allocated.                                      *)
C34_DeallocMatchesAlloc ==
  /\ \A j \in 1..Len(trace) :
       (trace[j].op = "dealloc" /\ trace[j].ok) =>
         /\ \E i \in 1..(j - 1) :
              /\ trace[i].op = "alloc" /\ trace[i].ok
              /\ trace[i].ptr = trace[j].ptr /\ trace[i].size = trace[j].size
         /\ trace[j].own \in {"host", "guest"}
  /\ (h.kind = "call" /\ h.pc = "idle" /\ history # <<>> /\ Last(history).ok) =>
       \A b \in AllocatedNow : ~IsLive(b.ptr, b.size)

----------------------------------------------------------------------------
(* the step ends a procedure call with success *)
CallSucceeds ==
  /\ h.kind = "call" /\ h.pc = "decode" /\ h'.pc = "idle"
  /\ Len(history') = Len(history) + 1
  /\ history'[Len(history')].ok

(* the step changes a binding of the host that was passed as &mut *)
MutChanged ==
  /\ h.kind = "call" /\ h'.kind = "call" /\ h.pc # "idle"
  /\ h'.args # h.args

(* the step changes the bindings of the host that were not passed as &mut *)
ImmutableChanged ==
  /\ h.kind = "call" /\ h'.kind = "call" /\ h.pc # "idle"
  /\ \E i \in 1..Len(h.args) : ~ArgsOf(h.proc)[i].is_mut /\ h'.args[i] # h.args[i]

(* C35: when a procedure call of the host returns an error, at whichever    *)
(* step, no binding that the host passed as a mutable argument was          *)
(* modified. The mutable arguments are written back in one step, the one    *)
(* that ends the call with success after the whole result tuple was         *)
(* decoded.                                                                 *)
C35_NoWriteBackOnError == [][(MutChanged => CallSucceeds) /\ ~ImmutableChanged]_vars

(* a call that failed at the decoding of a result in which the field of a   *)
(* mutable argument differs from the binding of the host                    *)
C35_Witness ==
  /\ h.kind = "call" /\ h.pc = "idle"
  /\ history # <<>> /\ ~Last(history).ok /\ Last(history).phase = "decode"
  /\ MutIdx(h.proc) # <<>>
  /\ h.res_msg # <<>>
  /\ Len(h.res_msg) >= 2 => h.res_msg[2] # h.args[MutIdx(h.proc)[1]]

----------------------------------------------------------------------------
(* the parameters of p declared without &mut, in declaration order *)
ImmutIdx(p) == SelectSeq([i \in 1..NArgs(p) |-> i], LAMBDA i : ~ArgsOf(p)[i].is_mut)

(* in the declaration of p no immutable parameter comes after a mutable one *)
ImmutableFirst(p) ==
  \A i, j \in 1..NArgs(p) : (i < j /\ ArgsOf(p)[i].is_mut) => ArgsOf(p)[j].is_mut

(* the entry-point name of p is the prefix followed by the procedure's name, *)
(* and no other entry of the registry has it                                *)
EntryPointName(p) ==
  /\ SERVER_CONFIG[p].ffi_name = "server_config_" \o SERVER_CONFIG[p].fn_name
  /\ \A q \in Procs : SERVER_CONFIG[q].ffi_name = SERVER_CONFIG[p].ffi_name => q = p

(* C36: in every entry of the registry no immutable parameter is declared   *)
(* after a mutable one, so the declaration order of a procedure's           *)
(* parameters is its immutable parameters followed by its mutable ones, and *)
(* the argument tuple of a call carries them in that order; every           *)
(* entry-point name is unique in the registry and is "server_config_"       *)
(* followed by the name of the procedure.                                   *)
C36_RegistryShape ==
  /\ \A p \in Procs :
       /\ ImmutableFirst(p)
       /\ EncodeArgs(p) = ImmutIdx(p) \o MutIdx(p)
       /\ EntryPointName(p)
  /\ (h.kind = "call" /\ h.pc # "idle" /\ h.arg_vec # <<>>) =>
       h.arg_vec = Serialize([k \in 1..Len(ImmutIdx(h.proc)) |-> h.args[ImmutIdx(h.proc)[k]]]
                             \o [k \in 1..Len(MutIdx(h.proc)) |-> h.args[MutIdx(h.proc)[k]]])

(* the argument tuple of a call of filter_hello, which has immutable and    *)
(* mutable parameters, was encoded with differing values                    *)
C36_Witness ==
  /\ h.kind = "call" /\ h.pc # "idle" /\ h.arg_vec # <<>>
  /\ SERVER_CONFIG[h.proc].ffi_name = "server_config_filter_hello"
  /\ h.args[1] # h.args[3] /\ h.args[2] # h.args[3]

----------------------------------------------------------------------------
(* the guest has built the result tuple of the call the host is waiting for *)
ResultBuilt ==
  /\ h.kind = "call" /\ h.pc # "idle"
  /\ g.kind = "call" /\ g.proc = h.proc /\ g.res # <<>>

(* every mutable parameter echoed in the result tuple has the value the     *)
(* host passed in                                                           *)
EchoedAsPassed ==
  ResultBuilt =>
    \A k \in 1..Len(MutIdx(h.proc)) : g.res[RetWidth(h.proc) + k] = h.args[MutIdx(h.proc)[k]]

(* a call that succeeds leaves the bindings of the host as they were *)
WriteBackIsIdentity == CallSucceeds => h'.args = h.args

(* C37: no default body of the registry modifies a mutable parameter. When  *)
(* a procedure is served by its default body, the value of every mutable    *)
(* parameter echoed back to the host is the value the host passed in; the   *)
(* default handle_rset leaves the mail metadata as it was.                  *)
C37_DefaultsKeepMutables == [](EchoedAsPassed) /\ [][WriteBackIsIdentity]_vars

(* a call of handle_rset with a mail in progress has returned, and the      *)
(* metadata of the mail is as it was                                        *)
C37_Witness ==
  /\ h.kind = "call" /\ h.pc = "idle"
  /\ SERVER_CONFIG[h.proc].fn_name = "handle_rset"
  /\ history # <<>> /\ Last(history).ok /\ Last(history).kind = "call"
  /\ h.args[1] = 1 /\ h.res_msg = <<0, 1, h.args[2]>>

----------------------------------------------------------------------------
(* the deallocations the guest made in the operation in progress *)
GuestDeallocs ==
  {i \in 1..Len(trace) : trace[i].who = "guest" /\ trace[i].op = "dealloc" /\ trace[i].ok}

(* the steps at which the setup entry point looked at KANNADER_CFG *)
ConfigChecks ==
  {i \in 1..Len(trace) : trace[i].who = "guest" /\ trace[i].op \in {"assert", "config_setup"}}

(* the entry point went past the assertion, or was stopped by it *)
SetupChecked == g.kind = "setup" /\ ConfigChecks # {}

(* C38: the guest setup entry point frees its argument buffer exactly once, *)
(* and before it checks whether a configuration exists. For every payload   *)
(* that decodes, the buffer is released when the setup succeeds and when it *)
(* is rejected because a configuration already exists.                      *)
C38_SetupFreesBeforeCheck ==
  g.kind = "setup" =>
    /\ Cardinality(GuestDeallocs) <= 1
    /\ \A i \in GuestDeallocs : trace[i].ptr = g.arg_ptr /\ trace[i].size = g.arg_size
    /\ \A j \in ConfigChecks : \E i \in GuestDeallocs : i < j
    /\ SetupChecked =>
         /\ Cardinality(GuestDeallocs) = 1
         /\ ~IsLive(g.arg_ptr, g.arg_size)
         /\ \A b \in heap : b.ptr # g.arg_ptr

(* a Setup rejected by the assertion on an instance that has a              *)
(* configuration, its argument buffer allocated and then freed              *)
C38_Witness ==
  /\ g.kind = "setup" /\ g.pc = "trapped" /\ cfg.set
  /\ g.arg_ptr # Null /\ g.arg_size > 0
  /\ \E j \in ConfigChecks : trace[j].op = "assert" /\ ~trace[j].ok
  /\ \E i \in GuestDeallocs : trace[i].own = "guest"
  /\ [ptr |-> g.arg_ptr, size |-> g.arg_size] \in freed

----------------------------------------------------------------------------
(* the parse gave an unquoted localpart *)
Unquoted(r) == r.kind = "Ok" /\ r.out.variant \in {"Ascii", "Utf8"}

IsAscii(w) == \A i \in 1..Len(w) : w[i] \in AsciiPrint

(* w is non-empty runs of atext characters (or, for Utf8, of characters     *)
(* that are not ASCII) separated by single dots                             *)
IsDotString(w) ==
  /\ w # <<>>
  /\ \A i \in 1..Len(w) : w[i] \in Atext \cup {".", "C3", "A9"}
  /\ w[1] # "." /\ w[Len(w)] # "."
  /\ \A i \in 1..(Len(w) - 1) : ~(w[i] = "." /\ w[i + 1] = ".")

(* the dot_string parser of parse_helpers takes w, and w is not empty *)
DotStringAccepts(w) ==
  /\ w # <<>>
  /\ dot_string(w \o <<"@">>) = Done(<<"@">>, w)

(* C39: an unquoted localpart that Localpart::parse accepts (Ascii, Utf8)   *)
(* is a dot-string, non-empty runs of atext characters separated by single  *)
(* dots: it holds no comma, and has no leading dot, no trailing dot and no  *)
(* two dots in a row. On ASCII input Localpart::parse accepts exactly the   *)
(* strings that dot_string of parse_helpers accepts as non-empty.           *)
C39_UnquotedIsDotString ==
  \A i \in 1..Len(trace) :
    /\ Unquoted(trace[i].res) => IsDotString(trace[i].res.out.raw)
    /\ (Unquoted(trace[i].res) /\ IsAscii(trace[i].buf)) =>
         DotStringAccepts(trace[i].res.out.raw)
    /\ \A k \in 1..(Len(trace[i].buf) - 1) :
         (/\ IsAscii(trace[i].buf)
          /\ trace[i].buf[1] # "\""
          /\ trace[i].buf[k + 1] = "@"
          /\ DotStringAccepts(Take(trace[i].buf, k))) =>
           /\ Unquoted(trace[i].res)
           /\ trace[i].res.out.raw = Take(trace[i].buf, k)

====
